---- MODULE Spec2Model ----
(***************************************************************************)
(* A model of the K2Tree of k2_tree (src/src/tree/datastore.rs and         *)
(* src/src/tree/mod.rs): a square bit matrix stored as two bit sequences,  *)
(* stems and leaves, with the layer offsets slayer_starts kept beside      *)
(* them.  Bit sequences are sequences of 0 and 1; the bit the code calls   *)
(* bits[i] is bits[i+1] here.  A helper that the code lets panic (a slice  *)
(* or index out of range, an unwrap of Err) returns Panic here, and an     *)
(* operation that panics ends in the result "Panic".  The BitMatrix of     *)
(* src/src/matrix.rs is modelled for from_matrix and to_matrix.            *)
(***************************************************************************)
EXTENDS Integers, Sequences, FiniteSets, TLC

VARIABLES
  stem_k,         \* K2Tree.stem_k
  leaf_k,         \* K2Tree.leaf_k
  max_slayers,    \* K2Tree.max_slayers
  slayer_starts,  \* K2Tree.slayer_starts
  stems,          \* K2Tree.stems
  leaves,         \* K2Tree.leaves
  result,         \* the last call and what it returned
  cells,          \* the cells a dense reference matrix has at 1
  matrix,         \* the BitMatrix from_matrix was called with
  out,            \* the BitMatrix to_matrix returned
  iter,           \* the iterator over the tree, if one is live
  item,           \* what the iterator's next() last returned
  calls           \* how many times the iterator's next() has been called

vars == <<stem_k, leaf_k, max_slayers, slayer_starts, stems, leaves, result, cells,
          matrix, out, iter, item, calls>>

(***************************************************************************)
(* Bounds of the model.                                                    *)
(***************************************************************************)
\* grow() is offered while max_slayers is below this.
MaxSlayers == 5
\* set(_, _, true) on a 0 cell is offered while fewer cells than this are 1.
MaxOnes == 4
\* The k values with_k is called with.
KValues == {2, 3}
\* from_matrix: the input matrices are up to MaxDim wide and high, or BigDim, and
\* hold at most MaxMatrixOnes bits at 1.
MaxDim == 9
BigDim == 163
MaxMatrixOnes == 2

\* next() is called at most MaxExtraCalls times after an iterator's last item.
MaxExtraCalls == 2

\* The block utilities are called on bit vectors of up to MaxBlockBits bits, with
\* blocks of the lengths BlockLens.
MaxBlockBits == 6
BlockLens == {2, 3, 4}

\* The value a helper returns where the code panics.
Panic == 0 - 1

(***************************************************************************)
(* Block utilities (src/src/tree/mod.rs).                                  *)
(***************************************************************************)
Zeroes(n) == [i \in 1..n |-> 0]

ones_in_range(bits, begin, end) ==
  IF begin < 0 \/ begin > end \/ end > Len(bits) THEN Panic
  ELSE Cardinality({i \in (begin + 1)..end : bits[i] = 1})

all_zeroes(bits, begin, end) ==
  \A i \in (begin + 1)..end : bits[i] = 0

\* The offsets from begin of the 1 bits in bits[begin..end], in order.
one_positions_range(bits, begin, end) ==
  LET F[i \in 0..(end - begin)] ==
        IF i = 0 THEN <<>>
        ELSE IF bits[begin + i] = 1 THEN Append(F[i - 1], i - 1) ELSE F[i - 1]
  IN F[end - begin]

\* remove_block: [ok, bits, panic].  bit_vec.len() - block_len is a usize: where
\* bit_vec is shorter than block_len the subtraction panics in a build with overflow
\* checks (wraps FALSE); in a build without them (wraps TRUE) it wraps to a number
\* above every block_start, the bound check passes, and an aligned remove then runs
\* bit_vec.remove(block_start) past the end of bit_vec, which panics.
remove_block_on(wraps, bits, block_start, block_len) ==
  IF Len(bits) < block_len /\ ~wraps
  THEN [ok |-> FALSE, bits |-> bits, panic |-> TRUE]
  ELSE IF (Len(bits) >= block_len /\ block_start > Len(bits) - block_len)
          \/ block_start % block_len # 0
  THEN [ok |-> FALSE, bits |-> bits, panic |-> FALSE]
  ELSE IF Len(bits) < block_len
  THEN [ok |-> FALSE,
        bits |-> IF block_start < Len(bits) THEN SubSeq(bits, 1, block_start) ELSE bits,
        panic |-> TRUE]
  ELSE [ok |-> TRUE,
        bits |-> SubSeq(bits, 1, block_start)
                   \o SubSeq(bits, block_start + block_len + 1, Len(bits)),
        panic |-> FALSE]

\* remove_block as set calls it: with block_start + block_len <= bit_vec.len(), where
\* the subtraction does not overflow.
remove_block(bits, block_start, block_len) ==
  remove_block_on(TRUE, bits, block_start, block_len)

\* A faulty insert_block that puts the block at the front whatever block_start is.
insert_block_AtFront(bits, block_start, block_len) ==
  [ok |-> block_start <= Len(bits), bits |-> Zeroes(block_len) \o bits]

insert_block(bits, block_start, block_len) ==
  IF block_start > Len(bits) \/ block_start % block_len # 0
  THEN [ok |-> FALSE, bits |-> bits]
  ELSE [ok |-> TRUE,
        bits |-> SubSeq(bits, 1, block_start) \o Zeroes(block_len)
                   \o SubSeq(bits, block_start + 1, Len(bits))]

\* A faulty write that flips the bit instead of storing v.
SetBit_Flip(bits, pos, v) == [bits EXCEPT ![pos + 1] = 1 - @]

\* bits.set(pos, v)
SetBit(bits, pos, v) == [bits EXCEPT ![pos + 1] = v]

RECURSIVE Pow(_, _)
Pow(b, e) == IF e = 0 THEN 1 ELSE b * Pow(b, e - 1)

stem_len(t) == t.stem_k * t.stem_k
leaf_len(t) == t.leaf_k * t.leaf_k
stem_start(t, bit_pos) == (bit_pos \div stem_len(t)) * stem_len(t)
leaf_start(t, bit_pos) == (bit_pos \div leaf_len(t)) * leaf_len(t)
matrix_width(t) == t.leaf_k * Pow(t.stem_k, t.max_slayers)

(***************************************************************************)
(* Ranges (src/src/tree/mod.rs).                                           *)
(***************************************************************************)
Range2D(min_x, max_x, min_y, max_y) ==
  [min_x |-> min_x, max_x |-> max_x, min_y |-> min_y, max_y |-> max_y]

width(r) == r.max_x - r.min_x + 1
height(r) == r.max_y - r.min_y + 1
contains(r, x, y) == x >= r.min_x /\ x <= r.max_x /\ y >= r.min_y /\ y <= r.max_y

\* SubRanges::from_range: the w*h subranges by rows then columns, or <<>> for
\* CannotSubdivideRange (a range always has at least one subrange).
from_range(r, w, h) ==
  IF (width(r) \div w) * w # width(r) \/ (height(r) \div h) * h # height(r)
  THEN <<>>
  ELSE LET sub_width == width(r) \div w
           sub_height == height(r) \div h
       IN [i \in 1..(w * h) |->
             LET x == (i - 1) % w
                 y == (i - 1) \div w
                 min_x == r.min_x + (x * sub_width)
                 min_y == r.min_y + (y * sub_height)
             IN Range2D(min_x, min_x + sub_width - 1, min_y, min_y + sub_height - 1)]

to_subranges(t, r) == from_range(r, t.stem_k, t.stem_k)

(***************************************************************************)
(* The tree as a value, and the layer index (src/src/tree/mod.rs).         *)
(***************************************************************************)
Tree ==
  [stem_k |-> stem_k, leaf_k |-> leaf_k, max_slayers |-> max_slayers,
   slayer_starts |-> slayer_starts, stems |-> stems, leaves |-> leaves]

\* The vector layer_start and layer_starts build: [0, stem_len] and then one more
\* start per layer while curr_layer < upto; <<>> where a popcount panics.
RECURSIVE LayerStartsLoop(_, _, _, _)
LayerStartsLoop(t, starts, curr_layer, upto) ==
  IF curr_layer >= upto THEN starts
  ELSE LET stems_in_curr_layer ==
             ones_in_range(t.stems, starts[curr_layer], starts[curr_layer + 1])
       IN IF stems_in_curr_layer = Panic THEN <<>>
          ELSE LayerStartsLoop(
                 t,
                 Append(starts, starts[curr_layer + 1] + stems_in_curr_layer * stem_len(t)),
                 curr_layer + 1, upto)

layer_starts(t) == LayerStartsLoop(t, <<0, stem_len(t)>>, 1, t.max_slayers - 1)

layer_start(t, l) ==
  LET starts == LayerStartsLoop(t, <<0, stem_len(t)>>, 1, l)
  IN IF l + 1 > Len(starts) THEN Panic ELSE starts[l + 1]

\* layer_len: the length of layer l of stems, Panic where the code panics.
layer_len(t, l) ==
  IF l = t.max_slayers - 1
  THEN IF layer_start(t, l) = Panic \/ layer_start(t, l) > Len(t.stems) THEN Panic
       ELSE Len(t.stems) - layer_start(t, l)
  ELSE IF l + 2 > Len(layer_starts(t)) THEN Panic
       ELSE layer_starts(t)[l + 2] - layer_starts(t)[l + 1]

\* A faulty parent that answers with the first bit of the top stem.
parent_TopStem(t, stem_start_) ==
  IF stem_start_ < stem_len(t) THEN <<>> ELSE <<0, 0>>

\* parent: <<parent_stem_start, bit_offset>>, <<>> for Err(()) (the top stem has no
\* parent), <<Panic>> where the code panics.
parent(t, stem_start_) ==
  IF stem_start_ < stem_len(t) THEN <<>>
  ELSE
    LET starts == layer_starts(t) IN
    IF starts = <<>> THEN <<Panic>>
    ELSE
      LET above == {i \in 1..Len(starts) : stem_start_ < starts[i]}
          \* the first i (from 0) with stem_start < layer_starts[i] gives layer i-1
          stem_layer ==
            IF above = {} THEN t.max_slayers - 1
            ELSE (CHOOSE i \in above : \A j \in above : i <= j) - 2
      IN
      IF stem_layer < 1 \/ stem_layer + 1 > Len(starts) \/ starts[stem_layer + 1] > Len(t.stems)
      THEN <<Panic>>
      ELSE
        LET stem_num == (stem_start_ - starts[stem_layer + 1]) \div stem_len(t)
            ones == one_positions_range(t.stems, starts[stem_layer], starts[stem_layer + 1])
        IN IF stem_num + 1 > Len(ones) THEN <<Panic>>
           ELSE LET parent_bit_absolute_pos == ones[stem_num + 1] + starts[stem_layer]
                IN <<stem_start(t, parent_bit_absolute_pos),
                     parent_bit_absolute_pos % stem_len(t)>>

\* leaf_parent: the position in stems of the bit whose child is the leaf holding
\* leaves[bit_pos].
leaf_parent(t, bit_pos) ==
  LET nth_leaf == bit_pos \div leaf_len(t)
      final_stem_layer_start == layer_start(t, t.max_slayers - 1)
  IN IF final_stem_layer_start = Panic \/ final_stem_layer_start > Len(t.stems) THEN Panic
     ELSE LET stem_ones_positions ==
                one_positions_range(t.stems, final_stem_layer_start, Len(t.stems))
          IN IF nth_leaf + 1 > Len(stem_ones_positions) THEN Panic
             ELSE final_stem_layer_start + stem_ones_positions[nth_leaf + 1]

(***************************************************************************)
(* Descent (src/src/tree/datastore.rs).                                    *)
(***************************************************************************)
\* A faulty count that puts every new stem first in its layer.
num_stems_before_child_None(t, bit_pos, layer) ==
  IF layer_start(t, layer) = Panic THEN Panic ELSE 0

num_stems_before_child(t, bit_pos, layer) ==
  LET begin == layer_start(t, layer)
  IN IF begin = Panic THEN Panic ELSE ones_in_range(t.stems, begin, bit_pos)

\* stem_to_leaf_start: [ok, v]; it reads the stored slayer_starts.
stem_to_leaf_start(t, stem_bitpos) ==
  IF stem_bitpos + 1 > Len(t.stems) THEN [ok |-> FALSE, v |-> Panic]
  ELSE IF t.stems[stem_bitpos + 1] = 0 THEN [ok |-> FALSE, v |-> 0]
  ELSE IF t.max_slayers > Len(t.slayer_starts) THEN [ok |-> FALSE, v |-> Panic]
  ELSE LET nth_leaf == ones_in_range(t.stems, t.slayer_starts[t.max_slayers], stem_bitpos)
       IN IF nth_leaf = Panic THEN [ok |-> FALSE, v |-> Panic]
          ELSE [ok |-> TRUE, v |-> nth_leaf * leaf_len(t)]

\* child_stem: [ok, v].
child_stem(t, layer, stem_start_, nth_child) ==
  IF stem_start_ + nth_child + 1 > Len(t.stems) THEN [ok |-> FALSE, v |-> Panic]
  ELSE IF t.stems[stem_start_ + nth_child + 1] = 0 \/ layer = t.max_slayers - 1
  THEN [ok |-> FALSE, v |-> 0]
  ELSE LET ls == layer_start(t, layer + 1)
           before == num_stems_before_child(t, stem_start_ + nth_child, layer)
       IN IF ls = Panic \/ before = Panic THEN [ok |-> FALSE, v |-> Panic]
          ELSE [ok |-> TRUE, v |-> ls + (before * stem_len(t))]

\* DescendResult: kind is "Leaf" or "Stem" (with pos and range), "Err" (with the
\* error in err) or "Panic".
DescendResult(kind, pos, range) == [kind |-> kind, pos |-> pos, range |-> range, err |-> ""]
DescendErr(e) == [kind |-> "Err", pos |-> 0, range |-> Range2D(0, 0, 0, 0), err |-> e]
DescendPanic == [kind |-> "Panic", pos |-> 0, range |-> Range2D(0, 0, 0, 0), err |-> ""]

RECURSIVE descend(_, _, _, _, _, _)
descend(t, x, y, layer, stem_pos, range) ==
  LET subranges == to_subranges(t, range) IN
  IF subranges = <<>> THEN DescendErr("SubRangesError")
  ELSE IF stem_pos + stem_len(t) > Len(t.stems) THEN DescendPanic
  ELSE
    LET within == {c \in 0..(stem_len(t) - 1) : contains(subranges[c + 1], x, y)} IN
    IF within = {} THEN DescendPanic    \* unreachable!()
    ELSE
      LET child_pos == CHOOSE c \in within : \A d \in within : c <= d IN
      IF t.stems[stem_pos + child_pos + 1] = 0 THEN DescendResult("Stem", stem_pos, range)
      ELSE IF layer = t.max_slayers - 1
      THEN LET ls == stem_to_leaf_start(t, stem_pos + child_pos)
           IN IF ls.ok THEN DescendResult("Leaf", ls.v, subranges[child_pos + 1])
              ELSE IF ls.v = Panic THEN DescendPanic
              ELSE DescendErr("TraverseError")
      ELSE LET cs == child_stem(t, layer, stem_pos, child_pos)
           IN IF cs.ok THEN descend(t, x, y, layer + 1, cs.v, subranges[child_pos + 1])
              ELSE IF cs.v = Panic THEN DescendPanic
              ELSE DescendErr("TraverseError")

matrix_bit(t, x, y, m_width) ==
  descend(t, x, y, 0, 0, Range2D(0, m_width - 1, 0, m_width - 1))

\* A faulty bounds test that lets the coordinate matrix_width through.
OutOfBounds_OffByOne(t, x, y) == x > matrix_width(t) \/ y > matrix_width(t)

\* is_empty: no 1 in leaves.
is_empty(t) == ones_in_range(t.leaves, 0, Len(t.leaves)) = 0

\* The bounds test of get and set.
OutOfBounds(t, x, y) == x >= matrix_width(t) \/ y >= matrix_width(t)

\* get: [res, v]; res is "Ok", "Panic" or the error returned.
get(t, x, y) ==
  LET mw == matrix_width(t) IN
  IF OutOfBounds(t, x, y) THEN [res |-> "Read(OutOfBounds)", v |-> 0]
  ELSE
    LET dr == matrix_bit(t, x, y, mw) IN
    CASE dr.kind = "Panic" -> [res |-> "Panic", v |-> 0]
      [] dr.kind = "Err" -> [res |-> "Read(" \o dr.err \o ")", v |-> 0]
      [] dr.kind = "Stem" -> [res |-> "Ok", v |-> 0]
      [] dr.kind = "Leaf" ->
           IF width(dr.range) # t.leaf_k \/ height(dr.range) # t.leaf_k
           THEN [res |-> "Read(TraverseError)", v |-> 0]
           ELSE LET offset == (t.leaf_k * (y - dr.range.min_y)) + (x - dr.range.min_x)
                IN IF dr.pos + offset + 1 > Len(t.leaves) THEN [res |-> "Panic", v |-> 0]
                   ELSE [res |-> "Ok", v |-> t.leaves[dr.pos + offset + 1]]

\* One turn of the loop of get_row or get_column, at (x, y): [res, v], v the leaf_k
\* bits pushed, read from the leaf at steps of stride.
LineChunk(t, x, y, stride) ==
  LET dr == matrix_bit(t, x, y, matrix_width(t)) IN
  CASE dr.kind = "Panic" -> [res |-> "Panic", v |-> <<>>]
    [] dr.kind = "Err" -> [res |-> "Read(" \o dr.err \o ")", v |-> <<>>]
    [] dr.kind = "Stem" -> [res |-> "Ok", v |-> Zeroes(t.leaf_k)]
    [] dr.kind = "Leaf" ->
         IF width(dr.range) # t.leaf_k \/ height(dr.range) # t.leaf_k
         THEN [res |-> "Read(TraverseError)", v |-> <<>>]
         ELSE LET offset == (t.leaf_k * (y - dr.range.min_y)) + (x - dr.range.min_x)
              IN IF dr.pos + offset + ((t.leaf_k - 1) * stride) + 1 > Len(t.leaves)
                 THEN [res |-> "Panic", v |-> <<>>]
                 ELSE [res |-> "Ok",
                       v |-> [i \in 1..t.leaf_k |->
                                t.leaves[dr.pos + offset + ((i - 1) * stride) + 1]]]

\* The loop of get_row or get_column over its chunks (chunk c is the turn at
\* c * leaf_k): the first turn that fails ends the call, otherwise the pushed bits
\* in order.
LineOf(lk, chunks) ==
  LET failed == {c \in DOMAIN chunks : chunks[c].res # "Ok"} IN
  IF failed # {}
  THEN [res |-> chunks[CHOOSE c \in failed : \A d \in failed : c <= d].res, v |-> <<>>]
  ELSE [res |-> "Ok",
        v |-> [i \in 1..(lk * Cardinality(DOMAIN chunks)) |->
                 chunks[(i - 1) \div lk].v[((i - 1) % lk) + 1]]]

\* get_row: [res, v].
get_row(t, y) ==
  LET mw == matrix_width(t) IN
  IF y >= mw THEN [res |-> "Read(OutOfBounds)", v |-> <<>>]
  ELSE LineOf(t.leaf_k, [c \in 0..((mw \div t.leaf_k) - 1) |->
                           LineChunk(t, c * t.leaf_k, y, 1)])

\* get_column: [res, v].
get_column(t, x) ==
  LET mw == matrix_width(t) IN
  IF x >= mw THEN [res |-> "Read(OutOfBounds)", v |-> <<>>]
  ELSE LineOf(t.leaf_k, [c \in 0..((mw \div t.leaf_k) - 1) |->
                           LineChunk(t, x, c * t.leaf_k, t.leaf_k)])

(***************************************************************************)
(* set (src/src/tree/datastore.rs).  An operation on a tree value returns  *)
(* [t, res]: the tree as the call leaves it, and "Ok", "Panic" or the      *)
(* error returned.                                                         *)
(***************************************************************************)
Ret(t, res) == [t |-> t, res |-> res]

\* The largest e with b^e <= v.
RECURSIVE ILog(_, _)
ILog(v, b) == IF v < b THEN 0 ELSE 1 + ILog(v \div b, b)

\* (v as f64).log(b as f64) as usize, which is ln(v) / ln(b) in doubles, truncated.
\* For b in 2..4 and v below 3000 the quotient truncates to the exact exponent
\* except for ln(243) / ln(3), which is 4.999999999999999.
F64LogTrunc(v, b) == IF b = 3 /\ v = 243 THEN 4 ELSE ILog(v, b)

layer_from_range(t, r) ==
  (t.max_slayers + 1) - (F64LogTrunc(width(r) \div t.leaf_k, t.stem_k) + 1)

\* The index of the first subrange of r that contains (x, y), or Panic for none.
FindChild(subranges, x, y) ==
  LET within == {c \in 0..(Len(subranges) - 1) : contains(subranges[c + 1], x, y)}
  IN IF within = {} THEN Panic ELSE CHOOSE c \in within : \A d \in within : c <= d

\* slayer_starts[from..] each moved by delta.
ShiftStarts(starts, from, delta) ==
  [i \in 1..Len(starts) |-> IF i > from THEN starts[i] + delta ELSE starts[i]]

\* The last step of the stem case: the final stem layer's bit, the new leaf, its bit.
SetNewLeaf(t, x, y, stem_start_, stem_range) ==
  LET subranges == to_subranges(t, stem_range) IN
  IF subranges = <<>> THEN Ret(t, "CorruptedK2Tree(Write(SubRangesError))")
  ELSE
    LET child_pos == FindChild(subranges, x, y) IN
    IF child_pos = Panic THEN Ret(t, "CorruptedK2Tree(Write(TraverseError))")
    ELSE IF stem_start_ + child_pos + 1 > Len(t.stems) THEN Ret(t, "Panic")
    ELSE
      LET t1 == [t EXCEPT !.stems = SetBit(t.stems, stem_start_ + child_pos, 1)]
          final_start == layer_start(t1, t1.max_slayers - 1)
          nth_leaf ==
            IF final_start = Panic THEN Panic
            ELSE ones_in_range(t1.stems, final_start, stem_start_ + child_pos)
      IN
      IF nth_leaf = Panic THEN Ret(t1, "Panic")
      ELSE
        LET leaf_start_ == nth_leaf * leaf_len(t1)
            ins == insert_block(t1.leaves, leaf_start_, leaf_len(t1))
        IN
        IF ~ins.ok THEN Ret(t1, "CorruptedK2Tree(Write(LeafInsertionError))")
        ELSE
          LET leaf_range == subranges[child_pos + 1]
              offset == (t1.leaf_k * (y - leaf_range.min_y)) + (x - leaf_range.min_x)
          IN IF leaf_start_ + offset + 1 > Len(ins.bits)
             THEN Ret([t1 EXCEPT !.leaves = ins.bits], "Panic")
             ELSE Ret([t1 EXCEPT !.leaves = SetBit(ins.bits, leaf_start_ + offset, 1)], "Ok")

\* The stem case's loop: one new stem per layer on the way down to the final layer.
RECURSIVE SetNewStems(_, _, _, _, _, _, _)
SetNewStems(t, x, y, layer, stem_start_, stem_range, layer_starts_len) ==
  IF ~(layer < t.max_slayers - 1) THEN SetNewLeaf(t, x, y, stem_start_, stem_range)
  ELSE
    LET subranges == to_subranges(t, stem_range) IN
    IF subranges = <<>> THEN Ret(t, "CorruptedK2Tree(Write(SubRangesError))")
    ELSE
      LET child_pos == FindChild(subranges, x, y) IN
      IF child_pos = Panic THEN Ret(t, "CorruptedK2Tree(Write(TraverseError))")
      ELSE IF stem_start_ + child_pos + 1 > Len(t.stems) THEN Ret(t, "Panic")
      ELSE
        LET t1 == [t EXCEPT !.stems = SetBit(t.stems, stem_start_ + child_pos, 1)]
            new_layer == layer = layer_starts_len - 1
            cs == child_stem(t1, layer, stem_start_, child_pos)
            t2 == IF new_layer
                  THEN [t1 EXCEPT !.slayer_starts = Append(t1.slayer_starts, Len(t1.stems))]
                  ELSE t1
            next_start == IF new_layer THEN Len(t1.stems) ELSE cs.v
        IN
        IF ~new_layer /\ ~cs.ok
        THEN Ret(t1, IF cs.v = Panic THEN "Panic" ELSE "CorruptedK2Tree(Write(TraverseError))")
        ELSE
          LET ins == insert_block(t2.stems, next_start, stem_len(t2)) IN
          IF ~ins.ok THEN Ret(t2, "CorruptedK2Tree(Write(StemInsertionError))")
          ELSE IF layer + 2 > Len(t2.slayer_starts)
          THEN Ret([t2 EXCEPT !.stems = ins.bits], "Panic")
          ELSE SetNewStems(
                 [t2 EXCEPT !.stems = ins.bits,
                            !.slayer_starts = ShiftStarts(t2.slayer_starts, layer + 2, stem_len(t2))],
                 x, y, layer + 1, next_start, subranges[child_pos + 1],
                 IF new_layer THEN layer_starts_len + 1 ELSE layer_starts_len)

\* A faulty loop that leaves the stems that became all 0s where they are.
RemoveDeadStems_KeepAll(t, curr_layer, stem_start_) == Ret(t, "Ok")

\* The leaf case's loop: remove the stems that became all 0s, up to layer 1.
RECURSIVE RemoveDeadStems(_, _, _)
RemoveDeadStems(t, curr_layer, stem_start_) ==
  IF ~(curr_layer > 0) THEN Ret(t, "Ok")
  ELSE IF stem_start_ + stem_len(t) > Len(t.stems) THEN Ret(t, "Panic")
  ELSE IF ~all_zeroes(t.stems, stem_start_, stem_start_ + stem_len(t)) THEN Ret(t, "Ok")
  ELSE IF curr_layer + 1 > Len(t.slayer_starts) THEN Ret(t, "Panic")
  ELSE
    LET t1 == [t EXCEPT !.slayer_starts =
                 ShiftStarts(t.slayer_starts, curr_layer + 1, 0 - stem_len(t))]
        p == parent(t1, stem_start_)
    IN
    IF Len(p) # 2 THEN Ret(t1, "Panic")
    ELSE
      LET rem == remove_block(t1.stems, stem_start_, stem_len(t1)) IN
      IF rem.panic THEN Ret(t1, "Panic")
      ELSE IF ~rem.ok THEN Ret(t1, "CorruptedK2Tree(Write(StemRemovalError))")
      ELSE IF p[1] + p[2] + 1 > Len(rem.bits) THEN Ret([t1 EXCEPT !.stems = rem.bits], "Panic")
      ELSE RemoveDeadStems([t1 EXCEPT !.stems = SetBit(rem.bits, p[1] + p[2], 0)],
                           curr_layer - 1, p[1])

\* A faulty leaf case that also resets max_slayers to 1 when the last leaf goes.
SetInLeaf_ResetsLayers(t, x, y, state, leaf_start_, leaf_range) ==
  IF width(leaf_range) # t.leaf_k \/ height(leaf_range) # t.leaf_k
  THEN Ret(t, "Write(TraverseError)")
  ELSE IF leaf_start_ + leaf_len(t) > Len(t.leaves) THEN Ret(t, "Panic")
  ELSE IF state
  THEN Ret([t EXCEPT !.leaves =
              SetBit(t.leaves, leaf_start_ + (t.leaf_k * (y - leaf_range.min_y))
                                 + (x - leaf_range.min_x), 1)], "Ok")
  ELSE IF Len(t.leaves) = leaf_len(t)
  THEN Ret([t EXCEPT !.leaves = <<>>, !.stems = Zeroes(stem_len(t)),
                     !.slayer_starts = <<0>>, !.max_slayers = 1], "Ok")
  ELSE Ret([t EXCEPT !.leaves =
              SetBit(t.leaves, leaf_start_ + (t.leaf_k * (y - leaf_range.min_y))
                                 + (x - leaf_range.min_x), 0)], "Ok")

\* The leaf case: write the bit, and remove the leaf when it became all 0s.
SetInLeaf(t, x, y, state, leaf_start_, leaf_range) ==
  IF width(leaf_range) # t.leaf_k \/ height(leaf_range) # t.leaf_k
  THEN Ret(t, "Write(TraverseError)")
  ELSE
    LET offset == (t.leaf_k * (y - leaf_range.min_y)) + (x - leaf_range.min_x) IN
    IF leaf_start_ + offset + 1 > Len(t.leaves) THEN Ret(t, "Panic")
    ELSE
      LET t1 == [t EXCEPT !.leaves = SetBit(t.leaves, leaf_start_ + offset, IF state THEN 1 ELSE 0)] IN
      IF state THEN Ret(t1, "Ok")
      ELSE IF leaf_start_ + leaf_len(t1) > Len(t1.leaves) THEN Ret(t1, "Panic")
      ELSE IF ~all_zeroes(t1.leaves, leaf_start_, leaf_start_ + leaf_len(t1)) THEN Ret(t1, "Ok")
      ELSE
        LET rem == remove_block(t1.leaves, leaf_start_, leaf_len(t1)) IN
        IF rem.panic THEN Ret(t1, "Panic")
        ELSE IF ~rem.ok THEN Ret(t1, "CorruptedK2Tree(Write(LeafRemovalError))")
        ELSE
          LET t2 == [t1 EXCEPT !.leaves = rem.bits]
              stem_bit_pos == leaf_parent(t2, leaf_start_)
          IN
          IF stem_bit_pos = Panic THEN Ret(t2, "Panic")
          ELSE IF Len(t2.leaves) = 0
          THEN Ret([t2 EXCEPT !.stems = Zeroes(stem_len(t2)), !.slayer_starts = <<0>>], "Ok")
          ELSE RemoveDeadStems([t2 EXCEPT !.stems = SetBit(t2.stems, stem_bit_pos, 0)],
                               t2.max_slayers - 1, stem_start(t2, stem_bit_pos))

set(t, x, y, state) ==
  LET mw == matrix_width(t) IN
  IF OutOfBounds(t, x, y) THEN Ret(t, "Write(OutOfBounds)")
  ELSE
    LET dr == matrix_bit(t, x, y, mw) IN
    CASE dr.kind = "Panic" -> Ret(t, "Panic")
      [] dr.kind = "Err" -> Ret(t, "Write(" \o dr.err \o ")")
      [] dr.kind = "Leaf" -> SetInLeaf(t, x, y, state, dr.pos, dr.range)
      [] dr.kind = "Stem" /\ state ->
           SetNewStems(t, x, y, layer_from_range(t, dr.range), dr.pos, dr.range,
                       Len(t.slayer_starts))
      [] OTHER -> Ret(t, "Ok")

(***************************************************************************)
(* BitMatrix (src/src/matrix.rs): width, height and the flat row-major     *)
(* bits, kept as the set of the indices y*width + x of the bits at 1.      *)
(***************************************************************************)
with_dimensions(w, h) == [width |-> w, height |-> h, bits |-> {}]

\* BitMatrix::new.
BitMatrix_new == with_dimensions(0, 0)

\* BitMatrix::set: [ok, m].
matrix_set(m, x, y, state) ==
  IF x >= m.width \/ y >= m.height THEN [ok |-> FALSE, m |-> m]
  ELSE LET index == y * m.width + x
       IN [ok |-> TRUE,
           m |-> [m EXCEPT !.bits = IF state THEN @ \cup {index} ELSE @ \ {index}]]

\* BitMatrix::get of a cell in bounds.
matrix_get(m, x, y) == IF (y * m.width + x) \in m.bits THEN 1 ELSE 0

\* A faulty reading of a row that keeps the flat indices of its 1 bits.
row_one_positions_Flat(m, row) ==
  {j \in m.bits : j >= row * m.width /\ j < (row + 1) * m.width}

\* into_rows()[row] through one_positions: the x of the 1 bits of a row.
row_one_positions(m, row) ==
  {i - row * m.width : i \in {j \in m.bits : j >= row * m.width /\ j < (row + 1) * m.width}}

(***************************************************************************)
(* get_coords and to_matrix (src/src/tree/mod.rs, datastore.rs).           *)
(***************************************************************************)
\* The offsets get_coords collects on its way up, n parents above stem_start_, as
\* they are after the reverse (top stem first); <<Panic>> where parent is Err.
RECURSIVE OffsetsAbove(_, _, _)
OffsetsWith(above, offset) == IF above = <<Panic>> THEN <<Panic>> ELSE Append(above, offset)

OffsetsFrom(t, p, n) ==
  IF Len(p) # 2 THEN <<Panic>> ELSE OffsetsWith(OffsetsAbove(t, p[1], n - 1), p[2])

OffsetsAbove(t, stem_start_, n) ==
  IF n = 0 THEN <<>> ELSE OffsetsFrom(t, parent(t, stem_start_), n)

\* The range reached from r by taking the subrange at each offset in turn; a range
\* of width 0 where to_subranges is Err or the offset is out of range.
RECURSIVE RangeAt(_, _, _)
RangeAt(t, r, offsets) ==
  IF offsets = <<>> THEN r
  ELSE LET subranges == to_subranges(t, r)
       IN IF Head(offsets) + 1 > Len(subranges) THEN Range2D(0, Panic, 0, Panic)
          ELSE RangeAt(t, subranges[Head(offsets) + 1], Tail(offsets))

\* The end of get_coords: the cell of the leaf bit in the leaf's range.
CoordsInRange(t, leaf_bit_pos, range, leaf_offset) ==
  IF width(range) = 0 THEN <<Panic>>
  ELSE <<range.min_x + (leaf_offset % t.leaf_k), range.min_y + (leaf_offset \div t.leaf_k)>>

\* get_coords from the offsets above the final layer's stem on.
CoordsBelow(t, leaf_bit_pos, parent_bit, above) ==
  IF above = <<Panic>> THEN <<Panic>>
  ELSE CoordsInRange(
         t, leaf_bit_pos,
         RangeAt(t, Range2D(0, matrix_width(t) - 1, 0, matrix_width(t) - 1),
                 Append(above, parent_bit - stem_start(t, parent_bit))),
         leaf_bit_pos - leaf_start(t, leaf_bit_pos))

\* get_coords from the leaf's parent bit on.
CoordsAbove(t, leaf_bit_pos, parent_bit) ==
  IF parent_bit = Panic THEN <<Panic>>
  ELSE CoordsBelow(t, leaf_bit_pos, parent_bit,
                   OffsetsAbove(t, stem_start(t, parent_bit), t.max_slayers - 1))

\* get_coords: <<x, y>>, or <<Panic>>.
get_coords(t, leaf_bit_pos) == CoordsAbove(t, leaf_bit_pos, leaf_parent(t, leaf_bit_pos))

\* The loop of to_matrix over coords, the get_coords of each 1 of leaves: [res, m].
MatrixOfCoords(w, coords) ==
  IF \E pos \in DOMAIN coords : coords[pos] = <<Panic>>
  THEN [res |-> "Panic", m |-> with_dimensions(w, w)]
  ELSE IF \E pos \in DOMAIN coords :
            ~matrix_set(with_dimensions(w, w), coords[pos][1], coords[pos][2], TRUE).ok
  THEN [res |-> "BitMatrixError", m |-> with_dimensions(w, w)]
  ELSE [res |-> "Ok",
        m |-> [with_dimensions(w, w) EXCEPT
                 !.bits = {coords[pos][2] * w + coords[pos][1] : pos \in DOMAIN coords}]]

\* to_matrix: [res, m].
to_matrix(t) ==
  MatrixOfCoords(
    matrix_width(t),
    [pos \in {i \in 0..(Len(t.leaves) - 1) : t.leaves[i + 1] = 1} |-> get_coords(t, pos)])

(***************************************************************************)
(* with_k, grow and shrink (src/src/tree/datastore.rs).                    *)
(***************************************************************************)
\* A faulty with_k that tests stem_k only.
with_k_StemOnly(sk, lk) ==
  IF sk < 2 THEN Ret([stem_k |-> sk, leaf_k |-> lk, max_slayers |-> 0,
                      slayer_starts |-> <<>>, stems |-> <<>>, leaves |-> <<>>],
                     "SmallStemKValue")
  ELSE Ret([stem_k |-> sk, leaf_k |-> lk, max_slayers |-> 2,
            slayer_starts |-> <<0>>, stems |-> Zeroes(sk * sk), leaves |-> <<>>],
           "Ok")

\* A faulty with_k that builds the stem with leaf_k.
with_k_LeafStem(sk, lk) ==
  IF sk < 2 THEN Ret([stem_k |-> sk, leaf_k |-> lk, max_slayers |-> 0,
                      slayer_starts |-> <<>>, stems |-> <<>>, leaves |-> <<>>],
                     "SmallStemKValue")
  ELSE IF lk < 2 THEN Ret([stem_k |-> sk, leaf_k |-> lk, max_slayers |-> 0,
                           slayer_starts |-> <<>>, stems |-> <<>>, leaves |-> <<>>],
                          "SmallLeafKValue")
  ELSE Ret([stem_k |-> sk, leaf_k |-> lk, max_slayers |-> 2,
            slayer_starts |-> <<0>>, stems |-> Zeroes(lk * lk), leaves |-> <<>>],
           "Ok")

with_k(sk, lk) ==
  IF sk < 2 THEN Ret([stem_k |-> sk, leaf_k |-> lk, max_slayers |-> 0,
                      slayer_starts |-> <<>>, stems |-> <<>>, leaves |-> <<>>],
                     "SmallStemKValue")
  ELSE IF lk < 2 THEN Ret([stem_k |-> sk, leaf_k |-> lk, max_slayers |-> 0,
                           slayer_starts |-> <<>>, stems |-> <<>>, leaves |-> <<>>],
                          "SmallLeafKValue")
  ELSE Ret([stem_k |-> sk, leaf_k |-> lk, max_slayers |-> 2,
            slayer_starts |-> <<0>>, stems |-> Zeroes(sk * sk), leaves |-> <<>>],
           "Ok")

\* K2Tree::new.
new ==
  [stem_k |-> 2, leaf_k |-> 2, max_slayers |-> 2, slayer_starts |-> <<0>>,
   stems |-> Zeroes(4), leaves |-> <<>>]

\* A faulty grow that prepends the stem to an empty tree too.
grow_AlwaysPrepends(t) ==
  Ret([t EXCEPT
         !.max_slayers = t.max_slayers + 1,
         !.slayer_starts = <<0>> \o ShiftStarts(t.slayer_starts, 0, stem_len(t)),
         !.stems = <<1>> \o Zeroes(stem_len(t) - 1) \o t.stems],
      "Ok")

grow(t) ==
  LET t1 == [t EXCEPT !.max_slayers = t.max_slayers + 1] IN
  IF Len(t.leaves) > 0
  THEN Ret([t1 EXCEPT
              !.slayer_starts = <<0>> \o ShiftStarts(t.slayer_starts, 0, stem_len(t)),
              !.stems = <<1>> \o Zeroes(stem_len(t) - 1) \o t.stems],
           "Ok")
  ELSE Ret(t1, "Ok")

\* A faulty shrink that removes the top stem whatever it holds.
shrink_Lossy(t) ==
  IF matrix_width(t) <= t.leaf_k * Pow(t.stem_k, 2)
  THEN Ret(t, "CouldNotShrink(AlreadyMinimum)")
  ELSE IF stem_len(t) > Len(t.stems) THEN Ret(t, "Panic")
  ELSE
    LET t1 == [t EXCEPT !.max_slayers = t.max_slayers - 1] IN
    IF Len(t1.slayer_starts) = 0 THEN Ret(t1, "Panic")
    ELSE Ret([t1 EXCEPT
                !.slayer_starts = ShiftStarts(Tail(t1.slayer_starts), 0, 0 - stem_len(t1)),
                !.stems = SubSeq(t1.stems, stem_len(t1) + 1, Len(t1.stems))],
             "Ok")

\* A faulty shrink whose minimum is a single stem layer.
shrink_MinimumOne(t) ==
  IF matrix_width(t) <= t.leaf_k * t.stem_k
  THEN Ret(t, "CouldNotShrink(AlreadyMinimum)")
  ELSE IF stem_len(t) > Len(t.stems) THEN Ret(t, "Panic")
  ELSE IF SubSeq(t.stems, 2, stem_len(t)) # Zeroes(stem_len(t) - 1)
  THEN Ret(t, "CouldNotShrink(WouldLoseInformation)")
  ELSE
    LET t1 == [t EXCEPT !.max_slayers = t.max_slayers - 1] IN
    IF Len(t1.slayer_starts) = 0 THEN Ret(t1, "Panic")
    ELSE Ret([t1 EXCEPT
                !.slayer_starts = ShiftStarts(Tail(t1.slayer_starts), 0, 0 - stem_len(t1)),
                !.stems = SubSeq(t1.stems, stem_len(t1) + 1, Len(t1.stems))],
             "Ok")

shrink(t) ==
  IF matrix_width(t) <= t.leaf_k * Pow(t.stem_k, 2)
  THEN Ret(t, "CouldNotShrink(AlreadyMinimum)")
  ELSE IF stem_len(t) > Len(t.stems) THEN Ret(t, "Panic")
  ELSE IF SubSeq(t.stems, 2, stem_len(t)) # Zeroes(stem_len(t) - 1)
  THEN Ret(t, "CouldNotShrink(WouldLoseInformation)")
  ELSE
    LET t1 == [t EXCEPT !.max_slayers = t.max_slayers - 1] IN
    IF Len(t1.slayer_starts) = 0 THEN Ret(t1, "Panic")
    ELSE Ret([t1 EXCEPT
                !.slayer_starts = ShiftStarts(Tail(t1.slayer_starts), 0, 0 - stem_len(t1)),
                !.stems = SubSeq(t1.stems, stem_len(t1) + 1, Len(t1.stems))],
             "Ok")

\* A faulty shrink_if_possible that never shrinks.
shrink_if_possible_Never(t) == Ret(t, "Ok")

\* shrink_if_possible: whatever shrink returns is dropped.
shrink_if_possible(t) ==
  Ret(shrink(t).t, IF shrink(t).res = "Panic" THEN "Panic" ELSE "Ok")

(***************************************************************************)
(* from_matrix (src/src/tree/datastore.rs).                                *)
(***************************************************************************)
\* A faulty loop that grows once whatever the matrix is.
GrowToFit_Once(t, m) == grow(t).t

\* The while loop: grow until the matrix fits.
RECURSIVE GrowToFit(_, _)
GrowToFit(t, m) ==
  IF m.width > matrix_width(t) \/ m.height > matrix_width(t)
  THEN GrowToFit(grow(t).t, m)
  ELSE t

\* The inner loop: set(x, y, true)? for the xs of one row, in ascending order.
RECURSIVE SetRow(_, _, _)
\* The ? on the Result r of the set, then the rest of the row.
SetRowNext(r, xs, y) == IF r.res # "Ok" THEN r ELSE SetRow(r.t, xs, y)

SetRowAt(t, xs, y, x) == SetRowNext(set(t, x, y, TRUE), xs \ {x}, y)

SetRow(t, xs, y) ==
  IF xs = {} THEN Ret(t, "Ok")
  ELSE SetRowAt(t, xs, y, CHOOSE a \in xs : \A b \in xs : a <= b)

\* The outer loop over the rows from y on; a row with no 1 calls nothing, so the
\* loop goes from one row that holds a 1 to the next.
RECURSIVE SetRows(_, _, _)
\* The Result r of a row, then the rows below it.
SetRowsNext(r, m, y) == IF r.res # "Ok" THEN r ELSE SetRows(r.t, m, y)

SetRowsAt(t, m, row) == SetRowsNext(SetRow(t, row_one_positions(m, row), row), m, row + 1)

SetRowsIn(t, m, rows) ==
  IF rows = {} THEN Ret(t, "Ok")
  ELSE SetRowsAt(t, m, CHOOSE a \in rows : \A b \in rows : a <= b)

SetRows(t, m, y) ==
  SetRowsIn(t, m, {row \in {i \div m.width : i \in m.bits} : row >= y /\ row < m.height})

\* The tree with_k returned, or its error.
FromMatrixWith(r, m) == IF r.res # "Ok" THEN r ELSE SetRows(GrowToFit(r.t, m), m, 0)

from_matrix(m, sk, lk) == FromMatrixWith(with_k(sk, lk), m)

(***************************************************************************)
(* set_stem_k and set_leaf_k (src/src/tree/datastore.rs).                  *)
(***************************************************************************)
\* *self = from_matrix(..)?: the tree is replaced only when from_matrix returns one.
RebuildWith(t, r) == IF r.res = "Ok" THEN r ELSE Ret(t, r.res)

\* from_matrix(self.to_matrix()?, sk, lk)?, tm being what to_matrix returned.
Rebuild(t, tm, sk, lk) ==
  IF tm.res # "Ok" THEN Ret(t, tm.res) ELSE RebuildWith(t, from_matrix(tm.m, sk, lk))

\* A faulty set_stem_k that returns the empty tree of the new k.
set_stem_k_Empty(t, k) ==
  IF t.stem_k = k THEN Ret(t, "Ok")
  ELSE IF k < 2 THEN Ret(t, "SmallStemKValue")
  ELSE RebuildWith(t, with_k(k, t.leaf_k))

set_stem_k(t, k) ==
  IF t.stem_k = k THEN Ret(t, "Ok")
  ELSE IF k < 2 THEN Ret(t, "SmallStemKValue")
  ELSE Rebuild(t, to_matrix(t), k, t.leaf_k)

set_leaf_k(t, k) ==
  IF t.leaf_k = k THEN Ret(t, "Ok")
  ELSE IF k < 2 THEN Ret(t, "SmallLeafKValue")
  ELSE Rebuild(t, to_matrix(t), t.stem_k, k)

(***************************************************************************)
(* Iterators (src/src/tree/iterators.rs).  An iterator is [kind, pos,      *)
(* layer, stem, bit]; the raw ones and Leaves use pos only.  next returns  *)
(* [iter, item]: the iterator as the call leaves it and the item returned. *)
(***************************************************************************)
NoIter == [kind |-> "none", pos |-> 0, layer |-> 0, stem |-> 0, bit |-> 0]
NoItem == [kind |-> "none"]
None == [kind |-> "None"]
PanicItem == [kind |-> "Panic"]
StemBit(value, layer, stem, bit) ==
  [kind |-> "StemBit", value |-> value, layer |-> layer, stem |-> stem, bit |-> bit]
LeafBit(value, x, y, leaf, bit) ==
  [kind |-> "LeafBit", value |-> value, x |-> x, y |-> y, leaf |-> leaf, bit |-> bit]
Bool(value) == [kind |-> "bool", value |-> value]

\* Stems::new, Leaves::new, StemsRaw::new and LeavesRaw::new.
Iter_new(kind) == [NoIter EXCEPT !.kind = kind]

\* The state Stems::next leaves after the last bit of a stem, n being
\* layer_len(layer) / stem_len.
StemsRollOver(i, n) ==
  IF n = 0 THEN [iter |-> i, item |-> PanicItem]
  ELSE IF i.stem = n - 1
  THEN [iter |-> [i EXCEPT !.pos = i.pos + 1, !.bit = 0, !.stem = 0, !.layer = i.layer + 1],
        item |-> None]
  ELSE [iter |-> [i EXCEPT !.pos = i.pos + 1, !.bit = 0, !.stem = i.stem + 1], item |-> None]

\* The state Stems::next leaves.
StemsAdvance(t, i) ==
  IF i.bit = stem_len(t) - 1
  THEN IF layer_len(t, i.layer) = Panic THEN [iter |-> i, item |-> PanicItem]
       ELSE StemsRollOver(i, layer_len(t, i.layer) \div stem_len(t))
  ELSE [iter |-> [i EXCEPT !.pos = i.pos + 1, !.bit = i.bit + 1], item |-> None]

\* A faulty Stems::next that counts the stems on through the layers.
Stems_next_NoLayers(t, i) ==
  IF i.pos >= Len(t.stems) THEN [iter |-> i, item |-> None]
  ELSE [iter |-> [i EXCEPT !.pos = i.pos + 1,
                           !.bit = (i.bit + 1) % stem_len(t),
                           !.stem = IF i.bit = stem_len(t) - 1 THEN i.stem + 1 ELSE i.stem],
        item |-> StemBit(t.stems[i.pos + 1], i.layer, i.stem, i.bit)]

\* Stems::next (IntoStems::next is the same code).
Stems_next(t, i) ==
  IF i.pos >= Len(t.stems) THEN [iter |-> i, item |-> None]
  ELSE IF StemsAdvance(t, i).item = PanicItem THEN [iter |-> i, item |-> PanicItem]
  ELSE [iter |-> StemsAdvance(t, i).iter,
        item |-> StemBit(t.stems[i.pos + 1], i.layer, i.stem, i.bit)]

\* The item Leaves::next returns at pos, xy being get_coords(pos).
LeafBitAt(t, pos, xy) ==
  IF xy = <<Panic>> THEN PanicItem
  ELSE LeafBit(t.leaves[pos + 1], xy[1], xy[2], pos \div leaf_len(t), pos % leaf_len(t))

\* A faulty Leaves::next that numbers the leaves by leaf_k.
Leaves_next_ByLeafK(t, i) ==
  IF i.pos = Len(t.leaves) THEN [iter |-> i, item |-> None]
  ELSE IF get_coords(t, i.pos) = <<Panic>> THEN [iter |-> i, item |-> PanicItem]
  ELSE [iter |-> [i EXCEPT !.pos = i.pos + 1],
        item |-> LeafBit(t.leaves[i.pos + 1], get_coords(t, i.pos)[1],
                         get_coords(t, i.pos)[2], i.pos \div t.leaf_k, i.pos % t.leaf_k)]

\* Leaves::next (IntoLeaves::next is the same code).
Leaves_next(t, i) ==
  IF i.pos = Len(t.leaves) THEN [iter |-> i, item |-> None]
  ELSE IF LeafBitAt(t, i.pos, get_coords(t, i.pos)) = PanicItem
  THEN [iter |-> i, item |-> PanicItem]
  ELSE [iter |-> [i EXCEPT !.pos = i.pos + 1],
        item |-> LeafBitAt(t, i.pos, get_coords(t, i.pos))]

\* A faulty raw next that returns the last bit again and again.
Raw_next_Stuck(bits, i) ==
  IF Len(bits) = 0 THEN [iter |-> i, item |-> None]
  ELSE IF i.pos >= Len(bits) THEN [iter |-> i, item |-> Bool(bits[Len(bits)])]
  ELSE [iter |-> [i EXCEPT !.pos = i.pos + 1], item |-> Bool(bits[i.pos + 1])]

\* StemsRaw::next and LeavesRaw::next, over stems and over leaves.
Raw_next(bits, i) ==
  IF i.pos >= Len(bits) THEN [iter |-> i, item |-> None]
  ELSE [iter |-> [i EXCEPT !.pos = i.pos + 1], item |-> Bool(bits[i.pos + 1])]

(***************************************************************************)
(* The state machine: a tree made by with_k, then any calls of set, grow   *)
(* and shrink.  A call that panics ends the run.                           *)
(***************************************************************************)
\* The cells set is called with: two cells of the first leaf, the next leaf to the
\* right and below, the next stem of the final layer on the diagonal, the last cell
\* of the matrix, and two cells out of bounds.
Points(t) ==
  LET lk == t.leaf_k
      sk == t.stem_k
      w == matrix_width(t)
  IN {<<0, 0>>, <<1, 0>>, <<lk, 0>>, <<0, lk>>, <<lk * sk, lk * sk>>,
      <<w - 1, w - 1>>, <<w, 0>>, <<0, w>>}

Install(r, op, in_bounds) ==
  /\ stem_k' = r.t.stem_k
  /\ leaf_k' = r.t.leaf_k
  /\ max_slayers' = r.t.max_slayers
  /\ slayer_starts' = r.t.slayer_starts
  /\ stems' = r.t.stems
  /\ leaves' = r.t.leaves
  /\ result' = [op |-> op, res |-> r.res, in_bounds |-> in_bounds]

\* The state after the constructor op has returned r.
InitWith(r, op) ==
  /\ stem_k = r.t.stem_k
  /\ leaf_k = r.t.leaf_k
  /\ max_slayers = r.t.max_slayers
  /\ slayer_starts = r.t.slayer_starts
  /\ stems = r.t.stems
  /\ leaves = r.t.leaves
  /\ result = [op |-> op, res |-> r.res, in_bounds |-> TRUE]
  /\ cells = {}
  /\ matrix = BitMatrix_new
  /\ out = BitMatrix_new
  /\ iter = NoIter
  /\ item = NoItem
  /\ calls = 0

Init ==
  \/ \E sk \in KValues, lk \in KValues : InitWith(with_k(sk, lk), "with_k")
  \/ InitWith(Ret(new, "Ok"), "new")

Alive == result.res # "Panic"

\* The caller's (x, y) is a cell of the matrix.
InBounds(t, x, y) == x < matrix_width(t) /\ y < matrix_width(t)

Set(x, y, state) ==
  /\ Alive
  /\ state => (<<x, y>> \in cells \/ Cardinality(cells) < MaxOnes)
  /\ Install(set(Tree, x, y, state), "set", InBounds(Tree, x, y))
  /\ cells' = IF ~InBounds(Tree, x, y) THEN cells
              ELSE IF state THEN cells \cup {<<x, y>>}
              ELSE cells \ {<<x, y>>}
  /\ UNCHANGED <<matrix, out, iter, item, calls>>

Grow ==
  /\ Alive
  /\ max_slayers < MaxSlayers
  /\ Install(grow(Tree), "grow", TRUE)
  /\ UNCHANGED <<cells, matrix, out, iter, item, calls>>

Shrink ==
  /\ Alive
  /\ LET r == shrink(Tree) IN
       /\ Install(r, "shrink", TRUE)
       /\ cells' = IF r.res = "Ok"
                   THEN {c \in cells : c[1] < matrix_width(r.t) /\ c[2] < matrix_width(r.t)}
                   ELSE cells
  /\ UNCHANGED <<matrix, out, iter, item, calls>>

ShrinkIfPossible ==
  /\ Alive
  /\ LET r == shrink_if_possible(Tree) IN
       /\ Install(r, "shrink_if_possible", TRUE)
       /\ cells' = {c \in cells : c[1] < matrix_width(r.t) /\ c[2] < matrix_width(r.t)}
  /\ UNCHANGED <<matrix, out, iter, item, calls>>

Next ==
  \/ \E p \in Points(Tree), state \in BOOLEAN : Set(p[1], p[2], state)
  \/ Grow
  \/ Shrink

Spec == Init /\ [][Next]_vars

\* The cells set is called with in the smaller machines: the first cell, the next leaf to the right,
\* the last cell of the matrix and a cell out of bounds.
KPoints(t) ==
  {<<0, 0>>, <<t.leaf_k, 0>>, <<matrix_width(t) - 1, matrix_width(t) - 1>>,
   <<matrix_width(t), 0>>}

\* The runs that call only set and grow.
NextGrowSet ==
  \/ \E p \in Points(Tree), state \in BOOLEAN : Set(p[1], p[2], state)
  \/ Grow

SpecGrowSet == Init /\ [][NextGrowSet]_vars

(***************************************************************************)
(* The round trip: a matrix M, from_matrix(M, stem_k, leaf_k), to_matrix.  *)
(***************************************************************************)
\* The <<width, height>> of the input matrices.
MatrixDims ==
  ((0..MaxDim) \X (0..MaxDim)) \cup {<<BigDim, 1>>, <<2, BigDim>>, <<BigDim, BigDim>>}

\* The cells of a w by h matrix that the input matrices may hold a 1 at.
MatrixPoints(w, h) ==
  {c \in {<<0, 0>>, <<w - 1, 0>>, <<0, h - 1>>, <<w - 1, h - 1>>, <<1, 2>>} :
     c[1] >= 0 /\ c[1] < w /\ c[2] >= 0 /\ c[2] < h}

\* The 1s of test_matrix(2), the 8 by 8 matrix of the unit tests, as <<x, y>>.
test_matrix_cells ==
  {<<5, 0>>, <<7, 0>>, <<4, 1>>, <<7, 1>>, <<6, 2>>, <<7, 2>>, <<0, 4>>, <<5, 4>>, <<4, 5>>}

\* The sets of 1s of the input matrices of dimensions d: up to MaxMatrixOnes of the
\* MatrixPoints, and those of test_matrix(2) for an 8 by 8 matrix.
MatrixOnes(d) ==
  {s \in SUBSET MatrixPoints(d[1], d[2]) : Cardinality(s) <= MaxMatrixOnes}
    \cup (IF d = <<8, 8>> THEN {test_matrix_cells} ELSE {})

InitMatrix ==
  \E sk \in KValues, lk \in KValues, d \in MatrixDims :
    \E on \in MatrixOnes(d) :
      LET r == with_k(sk, lk) IN
        /\ stem_k = r.t.stem_k
        /\ leaf_k = r.t.leaf_k
        /\ max_slayers = r.t.max_slayers
        /\ slayer_starts = r.t.slayer_starts
        /\ stems = r.t.stems
        /\ leaves = r.t.leaves
        /\ result = [op |-> "with_k", res |-> r.res, in_bounds |-> TRUE]
        /\ cells = on
        /\ matrix = [width |-> d[1], height |-> d[2],
                     bits |-> {c[2] * d[1] + c[1] : c \in on}]
        /\ out = BitMatrix_new
        /\ iter = NoIter
        /\ item = NoItem
        /\ calls = 0

\* from_matrix(matrix, stem_k, leaf_k), whose first step is the with_k of InitMatrix.
FromMatrix ==
  /\ result.op = "with_k"
  /\ Install(from_matrix(matrix, stem_k, leaf_k), "from_matrix", TRUE)
  /\ UNCHANGED <<cells, matrix, out, iter, item, calls>>

ToMatrix ==
  /\ result = [op |-> "from_matrix", res |-> "Ok", in_bounds |-> TRUE]
  /\ LET r == to_matrix(Tree) IN
       /\ out' = r.m
       /\ result' = [op |-> "to_matrix", res |-> r.res, in_bounds |-> TRUE]
  /\ UNCHANGED <<stem_k, leaf_k, max_slayers, slayer_starts, stems, leaves, cells, matrix,
               iter, item, calls>>

NextMatrix ==
  \/ FromMatrix
  \/ ToMatrix

SpecMatrix == InitMatrix /\ [][NextMatrix]_vars

(***************************************************************************)
(* The k values: with_k called with any k of KInputs, then any calls of    *)
(* set, set_stem_k and set_leaf_k on the tree it returned.                 *)
(***************************************************************************)
KInputs == 0..3

InitK ==
  \E sk \in KInputs, lk \in KInputs :
    LET r == with_k(sk, lk) IN
      /\ stem_k = r.t.stem_k
      /\ leaf_k = r.t.leaf_k
      /\ max_slayers = r.t.max_slayers
      /\ slayer_starts = r.t.slayer_starts
      /\ stems = r.t.stems
      /\ leaves = r.t.leaves
      /\ result = [op |-> "with_k", res |-> r.res, in_bounds |-> TRUE]
      /\ cells = {}
      /\ matrix = BitMatrix_new
      /\ out = BitMatrix_new
      /\ iter = NoIter
      /\ item = NoItem
      /\ calls = 0

\* with_k returned a tree.
Built == ~(result.op = "with_k" /\ result.res # "Ok")

SetStemK(k) ==
  /\ Alive
  /\ max_slayers < MaxSlayers
  /\ Install(set_stem_k(Tree, k), "set_stem_k", k >= 2)
  /\ UNCHANGED <<cells, matrix, out, iter, item, calls>>

SetLeafK(k) ==
  /\ Alive
  /\ max_slayers < MaxSlayers
  /\ Install(set_leaf_k(Tree, k), "set_leaf_k", k >= 2)
  /\ UNCHANGED <<cells, matrix, out, iter, item, calls>>

NextK ==
  /\ Built
  /\ \/ \E p \in KPoints(Tree), state \in BOOLEAN :
          /\ state => Cardinality(cells) < MaxMatrixOnes
          /\ Set(p[1], p[2], state)
     \/ \E k \in KInputs : SetStemK(k)
     \/ \E k \in KInputs : SetLeafK(k)

SpecK == InitK /\ [][NextK]_vars

(***************************************************************************)
(* Growing and shrinking: a tree made by new or with_k, then any calls of  *)
(* set, grow, shrink and shrink_if_possible.                               *)
(***************************************************************************)
NextShrink ==
  \/ \E p \in KPoints(Tree), state \in BOOLEAN :
       /\ state => Cardinality(cells) < MaxMatrixOnes
       /\ Set(p[1], p[2], state)
  \/ Grow
  \/ Shrink
  \/ ShrinkIfPossible

SpecShrink == Init /\ [][NextShrink]_vars

(***************************************************************************)
(* Iterating: a tree made by new or with_k and any calls of set, grow and  *)
(* shrink; an iterator made of it borrows the tree until its run ends.     *)
(***************************************************************************)
Iterating == iter.kind # "none"

\* The sequence the live iterator runs over.
IterBits ==
  IF iter.kind \in {"Stems", "StemsRaw"} THEN stems ELSE leaves

\* stems(), leaves(), stems_raw() or leaves_raw().
MakeIter(kind) ==
  /\ Alive
  /\ ~Iterating
  /\ iter' = Iter_new(kind)
  /\ item' = NoItem
  /\ calls' = 0
  /\ UNCHANGED <<stem_k, leaf_k, max_slayers, slayer_starts, stems, leaves, result, cells,
                 matrix, out>>

\* next() of the live iterator returns r; the caller calls it up to MaxExtraCalls
\* times more than the iterator has bits.
Return(r) ==
  /\ item # PanicItem
  /\ calls < Len(IterBits) + MaxExtraCalls
  /\ iter' = r.iter
  /\ item' = r.item
  /\ calls' = calls + 1
  /\ UNCHANGED <<stem_k, leaf_k, max_slayers, slayer_starts, stems, leaves, result, cells,
                 matrix, out>>

StemsNext == iter.kind = "Stems" /\ Return(Stems_next(Tree, iter))
LeavesNext == iter.kind = "Leaves" /\ Return(Leaves_next(Tree, iter))
StemsRawNext == iter.kind = "StemsRaw" /\ Return(Raw_next(stems, iter))
LeavesRawNext == iter.kind = "LeavesRaw" /\ Return(Raw_next(leaves, iter))

NextIter ==
  \/ /\ ~Iterating
     /\ \/ \E p \in KPoints(Tree), state \in BOOLEAN :
             /\ state => Cardinality(cells) < MaxMatrixOnes
             /\ Set(p[1], p[2], state)
        \/ Grow
        \/ Shrink
  \/ \E kind \in {"Stems", "Leaves", "StemsRaw", "LeavesRaw"} : MakeIter(kind)
  \/ StemsNext
  \/ LeavesNext
  \/ StemsRawNext
  \/ LeavesRawNext

SpecIter == Init /\ [][NextIter]_vars

(***************************************************************************)
(* The block utilities on their own: a bit vector, kept in stems, on which *)
(* insert_block, remove_block and set are called with any position and any *)
(* block length.  A build checks usize overflow or lets it wrap.           *)
(***************************************************************************)
InitBlocks ==
  InitWith(Ret([new EXCEPT !.stems = <<>>], "Ok"), "new")

\* What a block utility answered.
BlockRes(r) == IF r.panic THEN "Panic" ELSE IF r.ok THEN "Ok" ELSE "Err"

InsertBlock(block_start, block_len) ==
  /\ Alive
  /\ Len(stems) + block_len <= MaxBlockBits
  /\ stems' = insert_block(stems, block_start, block_len).bits
  /\ result' = [op |-> "insert_block",
                res |-> IF insert_block(stems, block_start, block_len).ok THEN "Ok" ELSE "Err",
                in_bounds |-> block_start <= Len(stems)]
  /\ UNCHANGED <<stem_k, leaf_k, max_slayers, slayer_starts, leaves, cells, matrix, out,
                 iter, item, calls>>

RemoveBlock(wraps, block_start, block_len) ==
  /\ Alive
  /\ stems' = remove_block_on(wraps, stems, block_start, block_len).bits
  /\ result' = [op |-> "remove_block",
                res |-> BlockRes(remove_block_on(wraps, stems, block_start, block_len)),
                in_bounds |-> block_start + block_len <= Len(stems)]
  /\ UNCHANGED <<stem_k, leaf_k, max_slayers, slayer_starts, leaves, cells, matrix, out,
                 iter, item, calls>>

\* bit_vec.set(pos, true)
SetBlockBit(pos) ==
  /\ Alive
  /\ pos < Len(stems)
  /\ stems' = SetBit(stems, pos, 1)
  /\ result' = [op |-> "set_bit", res |-> "Ok", in_bounds |-> TRUE]
  /\ UNCHANGED <<stem_k, leaf_k, max_slayers, slayer_starts, leaves, cells, matrix, out,
                 iter, item, calls>>

NextBlocks ==
  \/ \E block_start \in 0..MaxBlockBits, block_len \in BlockLens :
       InsertBlock(block_start, block_len)
  \/ \E wraps \in BOOLEAN, block_start \in 0..MaxBlockBits, block_len \in BlockLens :
       RemoveBlock(wraps, block_start, block_len)
  \/ \E pos \in 0..(MaxBlockBits - 1) : SetBlockBit(pos)

SpecBlocks == InitBlocks /\ [][NextBlocks]_vars

(***************************************************************************)
(* The cells the properties read the tree at.                              *)
(***************************************************************************)
\* The in-bounds cells set can have been called with since with_k: Points at every
\* width the tree can have had.
CalledCells(t) ==
  UNION {{p \in Points([t EXCEPT !.max_slayers = m]) :
            p[1] < matrix_width(t) /\ p[2] < matrix_width(t)} : m \in 2..MaxSlayers}

\* Every cell of every leaf a called cell lies in, and every cell of the first
\* stem of the final layer.
CheckedCells(t) ==
  LET lk == t.leaf_k
      w == matrix_width(t)
      first == 0..(lk * t.stem_k - 1)
  IN (first \X first)
     \cup UNION {{<<x, y>> \in ((p[1] \div lk) * lk..(p[1] \div lk) * lk + lk - 1)
                              \X ((p[2] \div lk) * lk..(p[2] \div lk) * lk + lk - 1) :
                     x < w /\ y < w} : p \in CalledCells(t)}

\* The bit of (x, y) in the dense reference matrix.
Reference(x, y) == IF <<x, y>> \in cells THEN 1 ELSE 0

(***************************************************************************)
(* Properties.                                                             *)
(***************************************************************************)
\* C1: after with_k and any grow() and in-bounds set calls, get(x, y) returns Ok
\* with the bit of (x, y) in the dense reference matrix updated by the same calls.
C1_GetMatchesReference ==
  \A c \in CheckedCells(Tree) :
    get(Tree, c[1], c[2]) = [res |-> "Ok", v |-> Reference(c[1], c[2])]

\* C1 in the runs where no call has panicked.
C1_GetMatchesReferenceUnlessPanic ==
  Alive => C1_GetMatchesReference

\* C2: in every state reached from with_k by grow() and in-bounds set calls, a set
\* and a get with x, y below matrix_width return Ok: no error and no abort.
C2_InBoundsCallsReturnOk ==
  /\ (result.op = "set" /\ result.in_bounds) => result.res = "Ok"
  /\ Alive => \A c \in CheckedCells(Tree) : get(Tree, c[1], c[2]).res = "Ok"

\* C3: where grow() and then shrink() return Ok, the empty tree included, stems,
\* leaves and max_slayers after the shrink are those before the grow.
C3_GrowThenShrinkRestores ==
  [][Grow =>
       LET r == shrink(Tree')
       IN (result'.res = "Ok" /\ r.res = "Ok") =>
            /\ r.t.stems = stems
            /\ r.t.leaves = leaves
            /\ r.t.max_slayers = max_slayers]_vars

\* C3 for the trees that hold at least one 1.
C3_GrowThenShrinkRestoresNonEmpty ==
  [][(Grow /\ leaves # <<>>) =>
       LET r == shrink(Tree')
       IN /\ result'.res = "Ok" /\ r.res = "Ok"
          /\ r.t.stems = stems
          /\ r.t.leaves = leaves
          /\ r.t.max_slayers = max_slayers]_vars

\* C4: after every successful with_k, set, grow or shrink, a tree with no leaves
\* has as stems exactly one all-zero stem of stem_k * stem_k bits.
C4_EmptyTreeIsOneZeroStem ==
  (result.res = "Ok" /\ leaves = <<>>) => stems = Zeroes(stem_k * stem_k)

\* The starts of the layers of stems when layer 0, at `start`, holds n stems and each
\* further layer one stem per 1 of the layer above; <<>> when stems does not split so.
RECURSIVE SplitLayers(_, _, _, _)
SplitLayers(t, start, n, layer) ==
  LET end == start + n * stem_len(t) IN
  IF end > Len(t.stems) THEN <<>>
  ELSE IF layer = t.max_slayers - 1
  THEN IF end = Len(t.stems) THEN <<start>> ELSE <<>>
  ELSE LET below == SplitLayers(t, end, ones_in_range(t.stems, start, end), layer + 1)
       IN IF below = <<>> THEN <<>> ELSE <<start>> \o below

\* C5: after every successful set, grow or shrink, stems splits into layers with
\* one stem in layer 0 and popcount(layer L) stems in layer L+1.
C5_StemsSplitIntoLayers ==
  (result.op \in {"set", "grow", "shrink"} /\ result.res = "Ok") =>
    SplitLayers(Tree, 0, 1, 0) # <<>>

\* The positions of the 1s of leaves.
LeafOnes(t) == {pos \in 0..(Len(t.leaves) - 1) : t.leaves[pos + 1] = 1}

\* C6: after every successful set, grow or shrink on a non-empty tree, there are as
\* many leaves as 1s in the final stem layer, and the n-th leaf is the child of the
\* n-th 1 of that layer: every 1 of the n-th leaf is a cell at 1 of the region that
\* the path up from the n-th 1 of the final layer names, and every cell at 1 has one.
C6_LeavesMatchFinalLayer ==
  (result.op \in {"set", "grow", "shrink"} /\ result.res = "Ok" /\ leaves # <<>>) =>
    LET starts == SplitLayers(Tree, 0, 1, 0) IN
    /\ starts # <<>>
    /\ Len(leaves) =
         leaf_k * leaf_k * ones_in_range(stems, starts[max_slayers], Len(stems))
    /\ \A pos \in LeafOnes(Tree) : get_coords(Tree, pos) \in cells
    /\ Cardinality(LeafOnes(Tree)) = Cardinality(cells)

\* A successful shrink of a tree with two leaves.
C6_Witness ==
  /\ result.op = "shrink" /\ result.res = "Ok"
  /\ Len(leaves) = 2 * leaf_k * leaf_k
  /\ Cardinality(cells) = 2

\* C7: after every successful set there is no all-zero leaf block, and no all-zero
\* stem block other than the single top stem of an empty tree.
C7_NoAllZeroBlocks ==
  (result.op = "set" /\ result.res = "Ok") =>
    /\ Len(leaves) % (leaf_k * leaf_k) = 0
    /\ Len(stems) % (stem_k * stem_k) = 0
    /\ \A n \in 0..((Len(leaves) \div (leaf_k * leaf_k)) - 1) :
         ~all_zeroes(leaves, n * leaf_k * leaf_k, (n + 1) * leaf_k * leaf_k)
    /\ \A n \in 0..((Len(stems) \div (stem_k * stem_k)) - 1) :
         all_zeroes(stems, n * stem_k * stem_k, (n + 1) * stem_k * stem_k) =>
           (leaves = <<>> /\ Len(stems) = stem_k * stem_k)

\* A successful set on a three-layer tree that leaves two leaves under two stems of
\* the final layer.
C7_Witness ==
  /\ result.op = "set" /\ result.res = "Ok"
  /\ max_slayers = 3 /\ Cardinality(cells) = 2
  /\ Len(leaves) = 2 * leaf_k * leaf_k
  /\ Len(stems) = 5 * stem_k * stem_k

\* C8: for a reachable tree in which cell (x, y) reads 0, set(x, y, true) and then
\* set(x, y, false) leave stems, leaves and max_slayers as they were.
C8_SetThenUnsetRestores ==
  [][\A p \in Points(Tree) :
       (/\ InBounds(Tree, p[1], p[2])
        /\ get(Tree, p[1], p[2]) = [res |-> "Ok", v |-> 0]
        /\ Set(p[1], p[2], TRUE)) =>
         LET r == set(Tree', p[1], p[2], FALSE)
         IN /\ result'.res = "Ok" /\ r.res = "Ok"
            /\ r.t.stems = stems
            /\ r.t.leaves = leaves
            /\ r.t.max_slayers = max_slayers]_vars

\* C8 where the set(x, y, true) returns.
C8_SetThenUnsetRestoresUnlessPanic ==
  [][\A p \in Points(Tree) :
       (/\ InBounds(Tree, p[1], p[2])
        /\ get(Tree, p[1], p[2]) = [res |-> "Ok", v |-> 0]
        /\ Set(p[1], p[2], TRUE)
        /\ result'.res # "Panic") =>
         LET r == set(Tree', p[1], p[2], FALSE)
         IN /\ result'.res = "Ok" /\ r.res = "Ok"
            /\ r.t.stems = stems
            /\ r.t.leaves = leaves
            /\ r.t.max_slayers = max_slayers]_vars

\* C9: for every reachable tree, in-bounds (x, y) and v, a second set(x, y, v)
\* returns Ok and leaves the tree as the first set(x, y, v) left it.
C9_SetIsIdempotent ==
  Alive =>
    \A p \in Points(Tree), v \in BOOLEAN :
      InBounds(Tree, p[1], p[2]) =>
        LET once == set(Tree, p[1], p[2], v)
        IN once.res # "Panic" =>
             (once.res = "Ok" /\ set(once.t, p[1], p[2], v) = Ret(once.t, "Ok"))

\* A tree that sets filled and grow widened, on which a set(x, y, true) of a 0 cell
\* makes a new leaf and a set(x, y, false) of a 1 cell removes one, and both return.
C9_Witness ==
  /\ result.op = "grow" /\ result.res = "Ok" /\ Cardinality(cells) = 2
  /\ \E p \in Points(Tree) :
       /\ InBounds(Tree, p[1], p[2]) /\ p \notin cells
       /\ set(Tree, p[1], p[2], TRUE).res = "Ok"
       /\ Len(set(Tree, p[1], p[2], TRUE).t.leaves) > Len(leaves)
  /\ \E p \in cells :
       /\ set(Tree, p[1], p[2], FALSE).res = "Ok"
       /\ Len(set(Tree, p[1], p[2], FALSE).t.leaves) < Len(leaves)

\* What M is once padded with 0s to a side by side matrix.
Padded(m, side) ==
  [width |-> side, height |-> side,
   bits |-> {(i \div m.width) * side + (i % m.width) : i \in m.bits}]

C10_WitnessExact ==
  /\ result.op = "to_matrix" /\ result.res = "Ok"
  /\ matrix.width = 8 /\ matrix.height = 8
  /\ Cardinality(matrix.bits) = 2
  /\ out = matrix

\* from_matrix aborted: stem_k is 3 and the matrix needs five layers of stems.
FromMatrixPanicked ==
  /\ result = [op |-> "from_matrix", res |-> "Panic", in_bounds |-> TRUE]
  /\ stem_k = 3 /\ max_slayers = 5 /\ matrix.bits # {}

\* The cells a tree built from the matrix m is read at: the cells up to MaxDim by
\* MaxDim, the 1s of m, and the corners of the tree's matrix.
MatrixCheckedCells(t, m) ==
  LET w == matrix_width(t)
  IN {c \in ((0..MaxDim) \X (0..MaxDim)) \cup cells
              \cup {<<w - 1, 0>>, <<0, w - 1>>, <<w - 1, w - 1>>} :
        InBounds(t, c[1], c[2])}

\* What M.get(x, y) is inside m, and false outside.
MatrixBit(m, x, y) == IF x < m.width /\ y < m.height THEN matrix_get(m, x, y) ELSE 0

\* C11: for every bit matrix M, from_matrix(M, stem_k, leaf_k) returns a tree T with
\* T.get(x, y) = M.get(x, y) inside M and T.get(x, y) = false at the in-bounds
\* cells outside M.
C11_FromMatrixReadsAsMatrix ==
  result.op = "from_matrix" =>
    /\ result.res = "Ok"
    /\ \A c \in MatrixCheckedCells(Tree, matrix) :
         get(Tree, c[1], c[2]) = [res |-> "Ok", v |-> MatrixBit(matrix, c[1], c[2])]

\* C11 where from_matrix returns a tree.
C11_FromMatrixReadsAsMatrixUnlessPanic ==
  (result.op = "from_matrix" /\ result.res # "Panic") => C11_FromMatrixReadsAsMatrix

\* from_matrix(test_matrix(2), 2, 2) has returned.
BuiltFromTestMatrix ==
  /\ result.op = "from_matrix" /\ stem_k = 2 /\ leaf_k = 2
  /\ matrix = [width |-> 8, height |-> 8,
               bits |-> {c[2] * 8 + c[1] : c \in test_matrix_cells}]

\* C12 as stated: the 8 by 8 tree with stem_k = leaf_k = 2 built from these cells has
\* stems 0111,1101,1100,0100 and leaves 0110,0101,1100,1000,0110.
C12_TestTreeAsStated ==
  BuiltFromTestMatrix =>
    /\ stems = <<0,1,1,1, 1,1,0,1, 1,1,0,0, 0,1,0,0>>
    /\ leaves = <<0,1,1,0, 0,1,0,1, 1,1,0,0, 1,0,0,0, 0,1,1,0>>

\* C12 amended: the tree is returned with stems 0111,1101,1000,1000 (the third and the
\* fourth stem each hold their one leaf at bit 0) and the leaves as stated,
\* max_slayers 2 and the second layer starting at 4.
C12_TestTree ==
  BuiltFromTestMatrix =>
    /\ result.res = "Ok"
    /\ max_slayers = 2
    /\ slayer_starts = <<0, 4>>
    /\ stems = <<0,1,1,1, 1,1,0,1, 1,0,0,0, 1,0,0,0>>
    /\ leaves = <<0,1,1,0, 0,1,0,1, 1,1,0,0, 1,0,0,0, 0,1,1,0>>

\* The tree built from test_matrix(2) holds its nine cells in five leaves.
C12_Witness ==
  /\ BuiltFromTestMatrix /\ result.res = "Ok"
  /\ Cardinality(cells) = 9
  /\ Len(leaves) = 20

\* The rows and columns read: those of the cells called, their neighbours, and the
\* last one.
CheckedLines(t) ==
  {n \in {0, 1, t.leaf_k, t.leaf_k + 1, t.leaf_k * t.stem_k, matrix_width(t) - 1}
           \cup {c[1] : c \in cells} \cup {c[2] : c \in cells} :
     n < matrix_width(t)}

\* The bits of get over a row and over a column, and whether every get returned Ok.
RowOfGets(t, y) == [i \in 1..matrix_width(t) |-> get(t, i - 1, y).v]
ColumnOfGets(t, x) == [i \in 1..matrix_width(t) |-> get(t, x, i - 1).v]
GetsOk(t, n) ==
  \A i \in 0..(matrix_width(t) - 1) : get(t, i, n).res = "Ok" /\ get(t, n, i).res = "Ok"

\* C13: on every tree a call has returned, get_row(y) with y < W returns the W bits
\* get(0, y), ..., get(W - 1, y) in order, and get_column(x) with x < W the W bits
\* get(x, 0), ..., get(x, W - 1).
C13_LinesMatchGets ==
  Alive =>
    \A n \in CheckedLines(Tree) :
      /\ GetsOk(Tree, n)
      /\ get_row(Tree, n) = [res |-> "Ok", v |-> RowOfGets(Tree, n)]
      /\ get_column(Tree, n) = [res |-> "Ok", v |-> ColumnOfGets(Tree, n)]

\* Coordinates out of range of the matrix of t, with every state.
OutOfRange(t) ==
  LET w == matrix_width(t)
  IN {<<w, 0>>, <<0, w>>, <<w, w>>, <<w + 1, 1>>, <<w - 1, w>>, <<w * t.stem_k, 0>>}

\* C14: set(x, y, s) with x >= W or y >= W returns Write(OutOfBounds) and leaves
\* stems, leaves, max_slayers and the layer offsets as they were; get, get_row and
\* get_column with a coordinate out of range return Read(OutOfBounds).
C14_OutOfBoundsIsRefused ==
  /\ (result.op = "set" /\ ~result.in_bounds) => result.res = "Write(OutOfBounds)"
  /\ Alive =>
       \A p \in OutOfRange(Tree) :
         /\ \A s \in BOOLEAN : set(Tree, p[1], p[2], s) = Ret(Tree, "Write(OutOfBounds)")
         /\ get(Tree, p[1], p[2]).res = "Read(OutOfBounds)"
         /\ p[2] >= matrix_width(Tree) => get_row(Tree, p[2]).res = "Read(OutOfBounds)"
         /\ p[1] >= matrix_width(Tree) => get_column(Tree, p[1]).res = "Read(OutOfBounds)"

\* set was called out of bounds on a tree holding leaves.
C14_Witness ==
  /\ result = [op |-> "set", res |-> "Write(OutOfBounds)", in_bounds |-> FALSE]
  /\ Len(leaves) > 0
  /\ max_slayers > 2

SmallKErrors == {"SmallStemKValue", "SmallLeafKValue"}

\* C15 as stated: the errors of bounds and of small k come unwrapped: get and set out
\* of bounds return OutOfBounds itself, and with_k, set_stem_k and set_leaf_k with
\* k < 2 the small-k error itself.
C15_ErrorsUnwrapped ==
  /\ (result.op = "with_k" /\ (stem_k < 2 \/ leaf_k < 2)) => result.res \in SmallKErrors
  /\ (result.op = "set" /\ ~result.in_bounds) => result.res = "OutOfBounds"
  /\ (Built /\ Alive) =>
       /\ \A p \in OutOfRange(Tree) : get(Tree, p[1], p[2]).res = "OutOfBounds"
       /\ \A k \in {0, 1} : /\ set_stem_k(Tree, k).res = "SmallStemKValue"
                            /\ set_leaf_k(Tree, k).res = "SmallLeafKValue"

\* C15 amended: with_k, set_stem_k and set_leaf_k with k < 2 return the small-k
\* error itself, while get out of bounds returns OutOfBounds inside Read and set
\* out of bounds returns OutOfBounds inside Write.
C15_SmallKUnwrappedBoundsWrapped ==
  /\ (result.op = "with_k" /\ (stem_k < 2 \/ leaf_k < 2)) => result.res \in SmallKErrors
  /\ (result.op = "set" /\ ~result.in_bounds) => result.res = "Write(OutOfBounds)"
  /\ (result.op = "set_stem_k" /\ ~result.in_bounds) => result.res = "SmallStemKValue"
  /\ (result.op = "set_leaf_k" /\ ~result.in_bounds) => result.res = "SmallLeafKValue"
  /\ (Built /\ Alive) =>
       /\ \A p \in OutOfRange(Tree) :
            /\ get(Tree, p[1], p[2]).res = "Read(OutOfBounds)"
            /\ \A s \in BOOLEAN : set(Tree, p[1], p[2], s).res = "Write(OutOfBounds)"
       /\ \A k \in {0, 1} : /\ set_stem_k(Tree, k).res = "SmallStemKValue"
                            /\ set_leaf_k(Tree, k).res = "SmallLeafKValue"

\* set_stem_k was called with k < 2 on a tree holding leaves.
C15_Witness ==
  /\ result = [op |-> "set_stem_k", res |-> "SmallStemKValue", in_bounds |-> FALSE]
  /\ Len(leaves) > 0

\* The tree with_k(sk, lk) returns for sk, lk >= 2.
EmptyTree(sk, lk) ==
  [stem_k |-> sk, leaf_k |-> lk, max_slayers |-> 2, slayer_starts |-> <<0>>,
   stems |-> [i \in 1..(sk * sk) |-> 0], leaves |-> <<>>]

\* C16: with_k fails with a small-k error whenever stem_k < 2 or leaf_k < 2, and
\* otherwise returns an empty tree with those k values; set_stem_k(k) and
\* set_leaf_k(k) with k < 2 return an error and leave the tree as it was.
C16_SmallKIsRefused ==
  /\ \A sk \in KInputs, lk \in KInputs :
       IF sk < 2 \/ lk < 2 THEN with_k(sk, lk).res \in SmallKErrors
       ELSE with_k(sk, lk) = Ret(EmptyTree(sk, lk), "Ok")
  /\ result.op = "with_k" =>
       IF stem_k < 2 \/ leaf_k < 2 THEN result.res \in SmallKErrors
       ELSE result.res = "Ok" /\ Tree = EmptyTree(stem_k, leaf_k)
  /\ (result.op \in {"set_stem_k", "set_leaf_k"} /\ ~result.in_bounds) =>
       result.res \in SmallKErrors
  /\ (Built /\ Alive) =>
       \A k \in {0, 1} : /\ set_stem_k(Tree, k) = Ret(Tree, "SmallStemKValue")
                         /\ set_leaf_k(Tree, k) = Ret(Tree, "SmallLeafKValue")

\* set_leaf_k was called with k < 2 on a tree holding leaves.
C16_Witness ==
  /\ result = [op |-> "set_leaf_k", res |-> "SmallLeafKValue", in_bounds |-> FALSE]
  /\ Len(leaves) > 0

\* The stems of t hold a top stem block, and none of its bits but bit 0 is set.
TopStemOnlyBitZero(t) ==
  /\ Len(t.stems) >= t.stem_k * t.stem_k
  /\ \A i \in 2..(t.stem_k * t.stem_k) : t.stems[i] = 0

\* t without its top stem block and with one layer less.
WithoutTopStem(t) ==
  [stems |-> [i \in 1..(Len(t.stems) - (t.stem_k * t.stem_k)) |->
                t.stems[i + (t.stem_k * t.stem_k)]],
   max_slayers |-> t.max_slayers - 1,
   leaves |-> t.leaves, stem_k |-> t.stem_k, leaf_k |-> t.leaf_k]

\* What a call has left of the tree, the layer offsets apart.
Shape(t) ==
  [stems |-> t.stems, max_slayers |-> t.max_slayers, leaves |-> t.leaves,
   stem_k |-> t.stem_k, leaf_k |-> t.leaf_k]

\* C17 as stated: shrink fails with CouldNotShrink (already minimum) when
\* max_slayers = 1, and on any tree with max_slayers >= 2 in which no bit of the top
\* stem other than bit 0 is set it succeeds, removing the top stem block and
\* decrementing max_slayers.
C17_ShrinkMinimumOne ==
  (Alive /\ TopStemOnlyBitZero(Tree)) =>
    IF max_slayers = 1 THEN shrink(Tree).res = "CouldNotShrink(AlreadyMinimum)"
    ELSE /\ shrink(Tree).res = "Ok"
         /\ Shape(shrink(Tree).t) = WithoutTopStem(Tree)

\* C17 amended: shrink fails with CouldNotShrink (already minimum), the tree as it
\* was, when max_slayers <= 2; on any tree with max_slayers >= 3 whose stems hold a
\* top stem block with no bit other than bit 0 set it succeeds, removing the top stem
\* block and decrementing max_slayers.
C17_ShrinkMinimumTwo ==
  Alive =>
    /\ max_slayers <= 2 => shrink(Tree) = Ret(Tree, "CouldNotShrink(AlreadyMinimum)")
    /\ (max_slayers >= 3 /\ TopStemOnlyBitZero(Tree)) =>
         /\ shrink(Tree).res = "Ok"
         /\ Shape(shrink(Tree).t) = WithoutTopStem(Tree)
    /\ (result.op = "shrink" /\ result.res = "CouldNotShrink(AlreadyMinimum)") =>
         max_slayers = 2

\* shrink has removed the top stem of a tree holding leaves, and shrink has then
\* been refused at the minimum.
C17_Witness ==
  \/ /\ result = [op |-> "shrink", res |-> "Ok", in_bounds |-> TRUE]
     /\ Len(leaves) > 0 /\ max_slayers >= 3
  \/ /\ result = [op |-> "shrink", res |-> "CouldNotShrink(AlreadyMinimum)",
                  in_bounds |-> TRUE]
     /\ Len(leaves) > 0

\* The tree is the one new() or with_k(k, k) returns (n = 0), that tree after grow()
\* (n = 1), or that tree after grow() and shrink() (shrunk).
FreshThen(n, shrunk) ==
  /\ stem_k = leaf_k
  /\ IF shrunk
     THEN /\ Tree = shrink(grow(with_k(stem_k, leaf_k).t).t).t
          /\ result.op \in {"shrink", "shrink_if_possible"} /\ result.res = "Ok"
     ELSE IF n = 1
     THEN Tree = grow(with_k(stem_k, leaf_k).t).t /\ result.op = "grow"
     ELSE Tree = with_k(stem_k, leaf_k).t /\ result.op \in {"new", "with_k"}

\* C18: on the tree of new() or with_k(k, k), the width after grow() is k^4; a first
\* shrink() returns Ok and restores the width k^3; a second shrink() returns
\* CouldNotShrink (already minimum) and leaves the tree as it was;
\* shrink_if_possible() does the same and returns nothing.
C18_GrowShrinkShrink ==
  [][/\ (FreshThen(0, FALSE) /\ result'.op = "grow") =>
          /\ matrix_width(Tree) = Pow(stem_k, 3)
          /\ matrix_width(Tree)' = Pow(stem_k, 4)
     /\ (FreshThen(1, FALSE) /\ result'.op \in {"shrink", "shrink_if_possible"}) =>
          /\ result'.res = "Ok"
          /\ matrix_width(Tree)' = Pow(stem_k, 3)
     /\ (FreshThen(1, TRUE) /\ result'.op = "shrink") =>
          /\ result'.res = "CouldNotShrink(AlreadyMinimum)"
          /\ Tree' = Tree
     /\ (FreshThen(1, TRUE) /\ result'.op = "shrink_if_possible") =>
          /\ result'.res = "Ok"
          /\ Tree' = Tree]_vars

\* The second shrink() after new() or with_k(k, k) and grow() has been refused.
C18_Witness ==
  /\ result = [op |-> "shrink", res |-> "CouldNotShrink(AlreadyMinimum)", in_bounds |-> TRUE]
  /\ stem_k = leaf_k /\ leaves = <<>> /\ stems = <<>> /\ max_slayers = 2

\* One of the bits 1 .. stem_k^2 - 1 of the top stem of t is set.
TopStemHoldsMore(t) ==
  \E i \in 1..((t.stem_k * t.stem_k) - 1) : i + 1 <= Len(t.stems) /\ t.stems[i + 1] = 1

\* C19: on a tree above the minimum size in which one of the bits 1 .. stem_k^2 - 1
\* of the top stem is set, shrink() returns CouldNotShrink (would lose information)
\* and leaves stems, leaves, max_slayers and the layer offsets as they were.
C19_ShrinkKeepsInformation ==
  /\ (Alive /\ matrix_width(Tree) > leaf_k * stem_k * stem_k /\ TopStemHoldsMore(Tree)) =>
       shrink(Tree) = Ret(Tree, "CouldNotShrink(WouldLoseInformation)")
  /\ (result.op = "shrink" /\ result.res = "CouldNotShrink(WouldLoseInformation)") =>
       max_slayers >= 3 /\ TopStemHoldsMore(Tree)

\* shrink has been refused on a tree with a leaf outside the first quadrant.
C19_Witness ==
  /\ result = [op |-> "shrink", res |-> "CouldNotShrink(WouldLoseInformation)",
               in_bounds |-> TRUE]
  /\ TopStemHoldsMore(Tree)
  /\ Len(leaves) > 0

\* The stem grow prepends: bit 0 at 1, the others at 0.
NewTopStem(t) == [i \in 1..(t.stem_k * t.stem_k) |-> IF i = 1 THEN 1 ELSE 0]

\* C20: grow() multiplies matrix_width by stem_k, incrementing max_slayers by one; on
\* an empty tree it changes nothing else; on a tree holding cells it prepends one
\* stem with bit 0 at 1 and the others at 0, the stems there were following it and
\* the leaves as they were.
C20_GrowAddsOneLayer ==
  /\ result.op = "grow" => result.res = "Ok"
  /\ Alive =>
       /\ grow(Tree).res = "Ok"
       /\ matrix_width(grow(Tree).t) = matrix_width(Tree) * stem_k
       /\ grow(Tree).t.max_slayers = max_slayers + 1
       /\ IF cells = {}
          THEN grow(Tree).t = [Tree EXCEPT !.max_slayers = max_slayers + 1]
          ELSE /\ grow(Tree).t.stems = NewTopStem(Tree) \o stems
               /\ Len(grow(Tree).t.stems) = Len(stems) + (stem_k * stem_k)
               /\ grow(Tree).t.leaves = leaves
               /\ grow(Tree).t.stem_k = stem_k
               /\ grow(Tree).t.leaf_k = leaf_k

\* grow has prepended a stem to a tree holding two leaves.
C20_Witness ==
  /\ result = [op |-> "grow", res |-> "Ok", in_bounds |-> TRUE]
  /\ Cardinality(cells) >= 2
  /\ Len(leaves) >= 2 * leaf_k * leaf_k
  /\ SubSeq(stems, 1, stem_k * stem_k) = NewTopStem(Tree)

\* The cells read after grow() of t: the checked cells of the grown tree, its last
\* cell and the first cells beyond the width of t.
GrownCheckedCells(t) ==
  LET g == grow(t).t
      w == matrix_width(t)
  IN CheckedCells(g) \cup {<<matrix_width(g) - 1, matrix_width(g) - 1>>,
                           <<w, 0>>, <<0, w>>, <<w, w>>, <<w - 1, w - 1>>}

\* get on the tree grow() makes of t returns what get returned on t inside the width
\* of t, and 0 beyond it.
GrowKeepsCells(t) ==
  \A c \in GrownCheckedCells(t) :
    get(grow(t).t, c[1], c[2]) =
      (IF InBounds(t, c[1], c[2]) THEN [res |-> "Ok", v |-> get(t, c[1], c[2]).v]
       ELSE [res |-> "Ok", v |-> 0])

\* C21: grow() preserves content: on every reachable tree of width W, get(x, y) after
\* grow() returns what it returned before for (x, y) in [0, W)^2, and false for the
\* in-bounds (x, y) with x >= W or y >= W.
C21_GrowPreservesContent ==
  Alive => GrowKeepsCells(Tree)

\* C21 on the trees that hold a stem.
C21_GrowPreservesContentWithStems ==
  (Alive /\ Len(stems) > 0) => GrowKeepsCells(Tree)

\* On the tree s that shrink() made of t, get returns Ok with what it returned on t,
\* and set succeeds at every in-bounds cell it is called with.
ShrinkKeepsCells(t, s) ==
  /\ \A c \in {d \in CheckedCells(s) \cup {<<matrix_width(s) - 1, matrix_width(s) - 1>>} :
                 InBounds(s, d[1], d[2])} :
       get(s, c[1], c[2]) = [res |-> "Ok", v |-> get(t, c[1], c[2]).v]
  /\ \A p \in {d \in Points(s) : InBounds(s, d[1], d[2])} :
       \A state \in BOOLEAN : set(s, p[1], p[2], state).res = "Ok"

\* C22: shrink() preserves content: whenever shrink() returns Ok on a reachable tree
\* of width W, empty or not, get(x, y) afterwards returns Ok with the value before
\* for every (x, y) in [0, W / stem_k)^2, and an in-bounds set then succeeds.
C22_ShrinkPreservesContent ==
  (Alive /\ shrink(Tree).res = "Ok") => ShrinkKeepsCells(Tree, shrink(Tree).t)

\* C22 on the trees that hold cells.
C22_ShrinkPreservesContentNonEmpty ==
  (Alive /\ shrink(Tree).res = "Ok" /\ cells # {}) =>
    ShrinkKeepsCells(Tree, shrink(Tree).t)

\* What set_stem_k(k) and set_leaf_k(k) with k >= 2 return on t.
Reparameterised(t) ==
  {set_stem_k(t, k) : k \in KInputs \ {0, 1}} \cup {set_leaf_k(t, k) : k \in KInputs \ {0, 1}}

InBoundsPoints(t) == {p \in Points(t) : InBounds(t, p[1], p[2])}

\* is_empty() is true exactly when no cell is 1, which is exactly when leaves has
\* length 0.
EmptyIffNoCells ==
  /\ is_empty(Tree) <=> cells = {}
  /\ cells = {} <=> Len(leaves) = 0

\* C24: in every state reachable by set and grow, is_empty() is true if and only if
\* no cell of the matrix is 1, if and only if leaves has length 0; and
\* set(x, y, true) then set(x, y, false) on an empty tree gives is_empty() true again.
C24_IsEmptyIffNoCells ==
  Alive =>
    /\ EmptyIffNoCells
    /\ cells = {} =>
         \A p \in InBoundsPoints(Tree) :
           /\ set(Tree, p[1], p[2], TRUE).res = "Ok"
           /\ ~is_empty(set(Tree, p[1], p[2], TRUE).t)
           /\ set(set(Tree, p[1], p[2], TRUE).t, p[1], p[2], FALSE).res = "Ok"
           /\ is_empty(set(set(Tree, p[1], p[2], TRUE).t, p[1], p[2], FALSE).t)

\* C24 where set returns.
C24_IsEmptyIffNoCellsUnlessPanic ==
  Alive =>
    /\ EmptyIffNoCells
    /\ cells = {} =>
         \A p \in InBoundsPoints(Tree) :
           set(Tree, p[1], p[2], TRUE).res # "Panic" =>
             /\ set(Tree, p[1], p[2], TRUE).res = "Ok"
             /\ ~is_empty(set(Tree, p[1], p[2], TRUE).t)
             /\ set(set(Tree, p[1], p[2], TRUE).t, p[1], p[2], FALSE).res = "Ok"
             /\ is_empty(set(set(Tree, p[1], p[2], TRUE).t, p[1], p[2], FALSE).t)

\* to_matrix() of t is Ok with a matrix as wide and as high as t whose bits are the
\* bits get returns on t.
MatrixAgreesWithGet(t) ==
  /\ to_matrix(t).res = "Ok"
  /\ to_matrix(t).m.width = matrix_width(t)
  /\ to_matrix(t).m.height = matrix_width(t)
  /\ Cardinality(to_matrix(t).m.bits) = ones_in_range(t.leaves, 0, Len(t.leaves))
  /\ \A c \in {d \in CheckedCells(t) \cup cells
                       \cup {<<matrix_width(t) - 1, matrix_width(t) - 1>>} :
                 InBounds(t, d[1], d[2])} :
       get(t, c[1], c[2]) = [res |-> "Ok", v |-> matrix_get(to_matrix(t).m, c[1], c[2])]

\* C25: on every reachable tree of width W, to_matrix() (into_matrix() runs the same
\* code) returns a W by W matrix m with m.get(x, y) = get(x, y) for every (x, y) in
\* [0, W)^2.
C25_ToMatrixAgreesWithGet ==
  Alive => MatrixAgreesWithGet(Tree)

\* C25 on the trees that hold a stem.
C25_ToMatrixAgreesWithGetWithStems ==
  (Alive /\ Len(stems) > 0) => MatrixAgreesWithGet(Tree)

\* The layers whose range of stems holds bit position p: from the start of the layer
\* to the start of the next one, or to the end of stems for the final layer.
LayersOf(t, p) ==
  {l \in 0..(t.max_slayers - 1) :
     /\ layer_start(t, l) # Panic
     /\ layer_start(t, l) <= p
     /\ \/ l = t.max_slayers - 1
        \/ (layer_start(t, l + 1) # Panic /\ p < layer_start(t, l + 1))}

\* C26: the annotated stems iterator yields, for every bit position p of stems in
\* increasing order, the item with value stems[p], layer the layer L whose range
\* holds p, stem (p - start[L]) / stem_k^2 and bit p mod stem_k^2.
C26_StemsItems ==
  [][(iter.kind = "Stems" /\ iter.pos < Len(stems)) =>
       /\ iter'.pos = iter.pos + 1
       /\ item'.kind = "StemBit"
       /\ item'.value = stems[iter.pos + 1]
       /\ LayersOf(Tree, iter.pos) = {item'.layer}
       /\ item'.stem = (iter.pos - layer_start(Tree, item'.layer)) \div (stem_k * stem_k)
       /\ item'.bit = iter.pos % (stem_k * stem_k)
    ]_vars

\* The iterator has yielded a 1 of the second stem of the third layer.
C26_Witness ==
  /\ iter.kind = "Stems"
  /\ item.kind = "StemBit"
  /\ item.value = 1 /\ item.layer = 2 /\ item.stem = 1 /\ item.bit > 0

\* The position in leaves the descent to (x, y) reaches on t, Panic if it reaches
\* none.
LeafBitReached(t, x, y) ==
  IF matrix_bit(t, x, y, matrix_width(t)).kind # "Leaf" THEN Panic
  ELSE matrix_bit(t, x, y, matrix_width(t)).pos
         + (t.leaf_k * (y - matrix_bit(t, x, y, matrix_width(t)).range.min_y))
         + (x - matrix_bit(t, x, y, matrix_width(t)).range.min_x)

\* C27: the annotated leaves iterator yields, for every bit position p of leaves in
\* increasing order, the item with value leaves[p], leaf p / leaf_k^2,
\* bit p mod leaf_k^2 and an in-bounds (x, y) whose descent reaches leaf bit p, so
\* that get(x, y) is the value and no two positions share their coordinates.
C27_LeavesItems ==
  [][(iter.kind = "Leaves" /\ iter.pos < Len(leaves)) =>
       /\ iter'.pos = iter.pos + 1
       /\ item'.kind = "LeafBit"
       /\ item'.value = leaves[iter.pos + 1]
       /\ item'.leaf = iter.pos \div (leaf_k * leaf_k)
       /\ item'.bit = iter.pos % (leaf_k * leaf_k)
       /\ InBounds(Tree, item'.x, item'.y)
       /\ LeafBitReached(Tree, item'.x, item'.y) = iter.pos
       /\ get(Tree, item'.x, item'.y) = [res |-> "Ok", v |-> item'.value]
    ]_vars

\* The iterator has yielded a 1 of the second leaf, which lies in a grown tree.
C27_Witness ==
  /\ iter.kind = "Leaves"
  /\ item.kind = "LeafBit"
  /\ item.value = 1 /\ item.leaf = 1 /\ item.bit > 0
  /\ max_slayers >= 3
  /\ <<item.x, item.y>> \in cells

\* The kind of item the live iterator yields.
ItemKind ==
  IF iter.kind = "Stems" THEN "StemBit" ELSE IF iter.kind = "Leaves" THEN "LeafBit" ELSE "bool"

\* C28: each of the four iterators terminates: the first stems.len() (stems,
\* annotated or raw) or leaves.len() (leaves, annotated or raw) calls of next()
\* yield an item each, and every later call returns None, on every reachable tree,
\* the empty ones included.
C28_IteratorsTerminate ==
  Iterating =>
    /\ calls = 0 <=> item = NoItem
    /\ (1 <= calls /\ calls <= Len(IterBits)) <=> item.kind = ItemKind
    /\ calls > Len(IterBits) <=> item = None
    /\ iter.pos = IF calls <= Len(IterBits) THEN calls ELSE Len(IterBits)

\* An iterator over a tree holding at least two stems has returned None.
C28_Witness ==
  /\ Iterating
  /\ item = None
  /\ calls = Len(IterBits) + 2
  /\ Len(IterBits) >= 2 * stem_k * stem_k

\* The child of the stem over range that holds (x, y): the first subrange of range
\* that contains it, Panic if none does.
ChildHolding(t, x, y, range) ==
  IF \A c \in 0..(stem_len(t) - 1) :
       c + 1 > Len(to_subranges(t, range)) \/ ~contains(to_subranges(t, range)[c + 1], x, y)
  THEN Panic
  ELSE CHOOSE c \in 0..(stem_len(t) - 1) :
         /\ contains(to_subranges(t, range)[c + 1], x, y)
         /\ \A d \in 0..(c - 1) : ~contains(to_subranges(t, range)[d + 1], x, y)

\* The stems descend visits from the stem at stem_pos in layer on: one per call.
RECURSIVE StemsVisited(_, _, _, _, _, _)
StemsVisitedBelow(t, x, y, layer, stem_pos, range, child_pos) ==
  IF child_pos = Panic \/ stem_pos + stem_len(t) > Len(t.stems) THEN 1
  ELSE IF t.stems[stem_pos + child_pos + 1] = 0 \/ layer = t.max_slayers - 1 THEN 1
  ELSE IF ~child_stem(t, layer, stem_pos, child_pos).ok THEN 1
  ELSE 1 + StemsVisited(t, x, y, layer + 1, child_stem(t, layer, stem_pos, child_pos).v,
                        to_subranges(t, range)[child_pos + 1])

StemsVisited(t, x, y, layer, stem_pos, range) ==
  StemsVisitedBelow(t, x, y, layer, stem_pos, range, ChildHolding(t, x, y, range))

\* The descent to (x, y) ends in a Stem whose bit for (x, y) is 0 or in a Leaf
\* whose range is leaf_k x leaf_k and contains (x, y), within max_slayers stems.
DescentEnds(t, x, y, dr) ==
  /\ StemsVisited(t, x, y, 0, 0, Range2D(0, matrix_width(t) - 1, 0, matrix_width(t) - 1))
       <= t.max_slayers
  /\ dr.kind \in {"Stem", "Leaf"}
  /\ dr.kind = "Stem" =>
       /\ contains(dr.range, x, y)
       /\ t.stems[dr.pos + ChildHolding(t, x, y, dr.range) + 1] = 0
  /\ dr.kind = "Leaf" =>
       /\ width(dr.range) = t.leaf_k
       /\ height(dr.range) = t.leaf_k
       /\ contains(dr.range, x, y)

\* C29: on every reachable tree the descent to every in-bounds (x, y) visits at most
\* max_slayers stems and returns a Stem result, at the first zero bit on the path,
\* or a Leaf result whose range is exactly leaf_k x leaf_k and contains (x, y).
C29_DescentEndsInStemOrLeaf ==
  Alive =>
    \A c \in CheckedCells(Tree) :
      DescentEnds(Tree, c[1], c[2], matrix_bit(Tree, c[1], c[2], matrix_width(Tree)))

\* C29 on the trees that hold a stem.
C29_DescentEndsInStemOrLeafWithStems ==
  (Alive /\ Len(stems) > 0) => C29_DescentEndsInStemOrLeaf

\* The number of 1s in bits.
Ones(bits) == Cardinality({i \in 1..Len(bits) : bits[i] = 1})

\* The leaf bits of the leaf the descent result dr reached, without the bit of (x, y).
OthersInLeaf(t, x, y, dr) ==
  {i \in 0..(leaf_len(t) - 1) :
     /\ dr.pos + i # LeafBitReached(t, x, y)
     /\ t.leaves[dr.pos + i + 1] = 1}

\* What set(x, y, state) did to the lengths of stems and leaves of t, dr being the
\* result of the descent to (x, y) on t and s the tree set left.
SetLengths(t, x, y, state, dr, s) ==
  /\ (dr.kind = "Stem" /\ state) =>
       /\ s.res = "Ok"
       /\ \E L0 \in LayersOf(t, dr.pos) :
            /\ Len(s.t.stems) = Len(t.stems) + (t.max_slayers - 1 - L0) * stem_len(t)
            /\ Ones(s.t.stems) = Ones(t.stems) + (t.max_slayers - 1 - L0) + 1
       /\ Len(s.t.leaves) = Len(t.leaves) + leaf_len(t)
       /\ Ones(s.t.leaves) = Ones(t.leaves) + 1
  /\ (dr.kind = "Leaf" /\ (state \/ OthersInLeaf(t, x, y, dr) # {})) =>
       /\ s.res = "Ok"
       /\ Len(s.t.stems) = Len(t.stems)
       /\ Len(s.t.leaves) = Len(t.leaves)

\* C30: a set(x, y, true) whose descent stops at a zero bit in layer L0 lengthens
\* stems by (max_slayers - 1 - L0) * stem_k^2 bits, one new stem with one set bit in
\* each layer below L0, and leaves by leaf_k^2 bits, one new leaf with one set bit;
\* a set whose descent reaches a leaf changes neither length unless it empties the
\* leaf.
C30_SetLengthens ==
  Alive =>
    \A p \in InBoundsPoints(Tree), state \in BOOLEAN :
      SetLengths(Tree, p[1], p[2], state, matrix_bit(Tree, p[1], p[2], matrix_width(Tree)),
                 set(Tree, p[1], p[2], state))

\* C30 for the calls of set that return.
C30_SetLengthensUnlessPanic ==
  Alive =>
    \A p \in InBoundsPoints(Tree), state \in BOOLEAN :
      set(Tree, p[1], p[2], state).res # "Panic" =>
        SetLengths(Tree, p[1], p[2], state, matrix_bit(Tree, p[1], p[2], matrix_width(Tree)),
                   set(Tree, p[1], p[2], state))

\* set(x, y, false) on t leaves one all-zero stem, no leaves, and the max_slayers
\* and matrix_width of t.
ClearedBy(t, x, y, s) ==
  /\ s.res = "Ok"
  /\ s.t.stems = Zeroes(stem_len(t))
  /\ s.t.leaves = <<>>
  /\ s.t.max_slayers = t.max_slayers
  /\ matrix_width(s.t) = matrix_width(t)

\* C31: when set(x, y, false) clears the last set cell of the tree, stems becomes
\* exactly one all-zero stem, leaves becomes empty, and max_slayers, hence
\* matrix_width, keeps the value it had before the call, whatever the number of
\* earlier grow() calls.
C31_ClearingLastCellResets ==
  (Alive /\ Cardinality(cells) = 1) =>
    \A c \in cells : ClearedBy(Tree, c[1], c[2], set(Tree, c[1], c[2], FALSE))

\* One cell is set in a tree grown twice or more, with stems in every layer.
C31_Witness ==
  /\ Alive
  /\ Cardinality(cells) = 1
  /\ max_slayers >= 4
  /\ Len(stems) = max_slayers * stem_k * stem_k
  /\ ClearedBy(Tree, 0, 0, set(Tree, 0, 0, FALSE))

\* The child index, in the stem of layer i on the path to cell c, of the subrange
\* that holds c: subranges go by rows, each of width leaf_k * stem_k^(max_slayers-1-i).
PathDigit(t, c, i) ==
  ((c[2] \div (t.leaf_k * Pow(t.stem_k, t.max_slayers - 1 - i))) % t.stem_k) * t.stem_k
    + ((c[1] \div (t.leaf_k * Pow(t.stem_k, t.max_slayers - 1 - i))) % t.stem_k)

\* The path from the top stem to the node of layer l that holds c, as a number in
\* base stem_k^2: nodes of one layer compare as their parent bits do, left to right.
RECURSIVE PathKey(_, _, _)
PathKey(t, c, l) ==
  IF l = 0 THEN 0 ELSE PathKey(t, c, l - 1) * stem_len(t) + PathDigit(t, c, l - 1)

\* The numbers of S in increasing order.
RECURSIVE Increasing(_)
Increasing(S) ==
  IF S = {} THEN <<>>
  ELSE <<CHOOSE m \in S : \A n \in S : m <= n>>
         \o Increasing(S \ {CHOOSE m \in S : \A n \in S : m <= n})

\* The stem of layer l at path key: a 1 for each child that holds a cell of cs.
CanonicalStem(t, cs, l, key) ==
  [j \in 1..stem_len(t) |->
     IF \E c \in cs : PathKey(t, c, l + 1) = key * stem_len(t) + (j - 1) THEN 1 ELSE 0]

\* The leaf at path key: a 1 for each cell of cs in it.
CanonicalLeaf(t, cs, l, key) ==
  [j \in 1..leaf_len(t) |->
     IF \E c \in cs : /\ PathKey(t, c, l) = key
                      /\ t.leaf_k * (c[2] % t.leaf_k) + (c[1] % t.leaf_k) = j - 1
     THEN 1 ELSE 0]

\* The stems of layer l, and the leaves, at the paths keys, one after the other.
RECURSIVE CanonicalLayer(_, _, _, _)
CanonicalLayer(t, cs, l, keys) ==
  IF keys = <<>> THEN <<>>
  ELSE CanonicalStem(t, cs, l, Head(keys)) \o CanonicalLayer(t, cs, l, Tail(keys))

RECURSIVE CanonicalLeafLayer(_, _, _, _)
CanonicalLeafLayer(t, cs, l, keys) ==
  IF keys = <<>> THEN <<>>
  ELSE CanonicalLeaf(t, cs, l, Head(keys)) \o CanonicalLeafLayer(t, cs, l, Tail(keys))

\* The layers l.. of stems for the cells cs, each layer's stems by their paths.
RECURSIVE CanonicalLayers(_, _, _)
CanonicalLayers(t, cs, l) ==
  IF l >= t.max_slayers THEN <<>>
  ELSE CanonicalLayer(t, cs, l, Increasing({PathKey(t, c, l) : c \in cs}))
         \o CanonicalLayers(t, cs, l + 1)

\* The stems and the leaves that hold exactly the cells cs at the parameters of t.
CanonicalStems(t, cs) ==
  IF cs = {} THEN Zeroes(stem_len(t)) ELSE CanonicalLayers(t, cs, 0)

CanonicalLeaves(t, cs) ==
  CanonicalLeafLayer(t, cs, t.max_slayers,
                     Increasing({PathKey(t, c, t.max_slayers) : c \in cs}))

\* C32: the representation is canonical: for fixed stem_k, leaf_k and max_slayers,
\* any sequences of in-bounds set calls that produce the same matrix content
\* produce the same stems and leaves, the stems of each layer and the leaves being
\* ordered by the position of their parent bits and not by the order of the calls.
C32_RepresentationIsCanonical ==
  Alive =>
    /\ stems = CanonicalStems(Tree, cells)
    /\ leaves = CanonicalLeaves(Tree, cells)

\* Three or more cells, the first and the last of the matrix among them, have been
\* set in a grown tree, by calls in whichever order.
C32_Witness ==
  /\ Alive
  /\ result.op = "set"
  /\ {<<0, 0>>, <<matrix_width(Tree) - 1, matrix_width(Tree) - 1>>} \subseteq cells
  /\ Cardinality(cells) >= 3
  /\ max_slayers >= 3

\* The starts of the stems of t.
StemStarts(t) == {s \in 0..(Len(t.stems) - 1) : s % stem_len(t) = 0}

\* The bit positions of layer L of the stems of t.
LayerBits(t, L) ==
  IF layer_start(t, L) = Panic \/ layer_len(t, L) = Panic THEN {}
  ELSE layer_start(t, L)..(layer_start(t, L) + layer_len(t, L) - 1)

\* p, the parent of the stem at s of layer L, is a set bit whose child_stem is s;
\* the top stem has none.
ParentHasChild(t, s, L, p) ==
  IF s = 0 THEN L = 0 /\ p = <<>>
  ELSE /\ L >= 1
       /\ Len(p) = 2
       /\ t.stems[p[1] + p[2] + 1] = 1
       /\ p[1] \in StemStarts(t)
       /\ p[2] < stem_len(t)
       /\ child_stem(t, L - 1, p[1], p[2]) = [ok |-> TRUE, v |-> s]

\* cs, the child_stem of the bit at b in layer L: Err for a zero bit and for a bit
\* of the final layer, and otherwise a stem whose parent is b.
ChildHasParent(t, b, L, cs) ==
  IF t.stems[b + 1] = 0 \/ L = t.max_slayers - 1
  THEN cs = [ok |-> FALSE, v |-> 0]
  ELSE /\ cs.ok
       /\ cs.v \in StemStarts(t)
       /\ parent(t, cs.v) = <<stem_start(t, b), b % stem_len(t)>>

\* parent and child_stem are inverse on the bits of layer L.
InverseOnLayer(t, L) ==
  \A b \in LayerBits(t, L) :
    /\ b % stem_len(t) = 0 => ParentHasChild(t, b, L, parent(t, b))
    /\ ChildHasParent(t, b, L, child_stem(t, L, stem_start(t, b), b % stem_len(t)))

\* C33: in every reachable non-empty tree parent and child_stem are mutually
\* inverse: every stem S of a layer L >= 1 has parent(S) = (P, o) with bit P + o set
\* and child_stem(L - 1, P, o) = S; child_stem is Err for a zero bit and for a stem
\* of the final layer, and parent is Err for the top stem.
C33_ParentAndChildStemInverse ==
  (Alive /\ cells # {}) =>
    /\ UNION {LayerBits(Tree, L) : L \in 0..(max_slayers - 1)} = 0..(Len(stems) - 1)
    /\ \A L \in 0..(max_slayers - 1) : InverseOnLayer(Tree, L)

\* A tree of four layers or more in which a stem below the top holds two children.
C33_Witness ==
  /\ Alive
  /\ max_slayers >= 4
  /\ Cardinality(cells) >= 3
  /\ \E s \in StemStarts(Tree) :
       /\ s > 0
       /\ 1 \notin LayersOf(Tree, s)
       /\ parent(Tree, s)[2] > 0
  /\ \E s \in StemStarts(Tree) : s > 0 /\ Ones(SubSeq(stems, s + 1, s + stem_k * stem_k)) >= 2

\* The stored slayer_starts of t are the offsets recomputed from its stem bits, or
\* [0] on an empty tree.
StoredStartsAgree(t) ==
  IF t.leaves = <<>> THEN t.slayer_starts = <<0>>
  ELSE /\ Len(t.slayer_starts) = t.max_slayers
       /\ \A L \in 0..(t.max_slayers - 1) : t.slayer_starts[L + 1] = layer_start(t, L)

\* C34: after every successful set, grow or shrink the stored slayer_starts agrees
\* with the offsets recomputed from the stem bits: on a non-empty tree it has
\* exactly max_slayers entries with slayer_starts[L] = layer_start(L) for every
\* L < max_slayers, and on an empty tree it is [0].
C34_StoredStartsAgree ==
  (result.op \in {"set", "grow", "shrink"} /\ result.res = "Ok") => StoredStartsAgree(Tree)

\* C34 on the trees that hold a stem.
C34_StoredStartsAgreeWithStems ==
  (result.op \in {"set", "grow", "shrink"} /\ result.res = "Ok" /\ Len(stems) > 0) =>
    StoredStartsAgree(Tree)

\* Where the descent to (x, y) on t stops at a zero bit, the layer set derives from
\* the stopping range dr.range is the layer of the stem at dr.pos.
DerivedLayerIsStoppingLayer(t, dr) ==
  dr.kind = "Stem" =>
    /\ width(dr.range) = t.leaf_k * Pow(t.stem_k, t.max_slayers - layer_from_range(t, dr.range))
    /\ LayersOf(t, dr.pos) = {layer_from_range(t, dr.range)}

\* C35: when set(x, y, true) lands in a zero region, the layer it derives from the
\* stopping range, a truncated floating-point logarithm of range width / leaf_k to
\* base stem_k, is the layer L0 at which the descent stopped, the range having side
\* leaf_k * stem_k^(max_slayers - L0).
C35_LayerFromRangeIsDescentLayer ==
  Alive =>
    \A p \in InBoundsPoints(Tree) :
      DerivedLayerIsStoppingLayer(Tree, matrix_bit(Tree, p[1], p[2], matrix_width(Tree)))

\* C35 for the ranges other than the one of 243 leaves a side in base 3.
C35_LayerFromRangeIsDescentLayerBut243 ==
  Alive =>
    \A p \in InBoundsPoints(Tree) :
      (stem_k = 3 /\ width(matrix_bit(Tree, p[1], p[2], matrix_width(Tree)).range)
                       = 243 * leaf_k)
      \/ DerivedLayerIsStoppingLayer(Tree, matrix_bit(Tree, p[1], p[2], matrix_width(Tree)))

\* remove_block(B, pos, len) answered r as stated: Ok with the len bits at
\* [pos, pos + len) gone where pos + len <= B.length and pos mod len = 0, and
\* otherwise an error with B as it was.
RemovesAsStated(B, pos, len, r) ==
  IF pos + len <= Len(B) /\ pos % len = 0
  THEN /\ BlockRes(r) = "Ok"
       /\ r.bits = SubSeq(B, 1, pos) \o SubSeq(B, pos + len + 1, Len(B))
  ELSE /\ BlockRes(r) = "Err"
       /\ r.bits = B

\* insert_block(B, pos, len) answered r as stated: Ok with len zero bits at pos
\* where pos <= B.length and pos mod len = 0, and otherwise an error with B as it
\* was.
InsertsAsStated(B, pos, len, r) ==
  IF pos <= Len(B) /\ pos % len = 0
  THEN /\ r.ok
       /\ r.bits = SubSeq(B, 1, pos) \o Zeroes(len) \o SubSeq(B, pos + 1, Len(B))
  ELSE /\ ~r.ok
       /\ r.bits = B

\* C36: remove_block(B, pos, len) removes exactly the len bits at [pos, pos + len)
\* when pos + len <= B.length and pos mod len = 0, and otherwise returns an error
\* leaving B unchanged, B.length < len included; insert_block(B, pos, len) inserts
\* len zero bits at pos when pos <= B.length and pos mod len = 0, and otherwise
\* returns an error leaving B unchanged.
C36_BlockUtilitiesAsStated ==
  Alive =>
    \A pos \in 0..MaxBlockBits, len \in BlockLens :
      /\ \A wraps \in BOOLEAN :
           RemovesAsStated(stems, pos, len, remove_block_on(wraps, stems, pos, len))
      /\ InsertsAsStated(stems, pos, len, insert_block(stems, pos, len))

\* C36 for the bit vectors that hold a block or more.
C36_BlockUtilitiesAsStatedFromOneBlock ==
  Alive =>
    \A pos \in 0..MaxBlockBits, len \in BlockLens :
      /\ \A wraps \in BOOLEAN :
           Len(stems) >= len =>
             RemovesAsStated(stems, pos, len, remove_block_on(wraps, stems, pos, len))
      /\ InsertsAsStated(stems, pos, len, insert_block(stems, pos, len))

====
